---- MODULE Spec2Model ----
(***************************************************************************)
(* A model of the credit-card benefits crawler: the content fetcher with   *)
(* its retry loop, the single-card orchestrator (crawlCardBenefits), the   *)
(* listing resolver (URL filter, HEAD validation, per-card fan-out) and    *)
(* the validation predicates they rely on.                                 *)
(*                                                                         *)
(* JavaScript strings are sequences of one-character strings, so that      *)
(* toLowerCase, includes and the regular-expression tests are computed,    *)
(* not assumed.  A JavaScript value that may be null is a record           *)
(* [t |-> "null"] or [t |-> "str", v |-> <<chars>>].                       *)
(***************************************************************************)
EXTENDS Integers, Sequences, FiniteSets, TLC

----------------------------------------------------------------------------
(* Bounds of the model *)

\* crawlCardBenefits calls made on one crawler instance
MaxCrawls == 2
\* anchors of a main page that pass the relevance filter
MaxLinks == 2
\* candidates the structuring model proposes for one listing page
MaxCards == 3

----------------------------------------------------------------------------
(* Strings *)

UpperChars == <<"A","B","C","D","E","F","G","H","I","J","K","L","M","N","O","P","Q","R","S","T","U","V","W","X","Y","Z">>
LowerChars == <<"a","b","c","d","e","f","g","h","i","j","k","l","m","n","o","p","q","r","s","t","u","v","w","x","y","z">>

\* the lower-case letter of each upper-case letter
LowerOf ==
    [c \in {UpperChars[i] : i \in 1..Len(UpperChars)} |->
        LowerChars[CHOOSE i \in 1..Len(UpperChars) : UpperChars[i] = c]]

\* String.prototype.toLowerCase, one character
LowerChar(c) == IF c \in DOMAIN LowerOf THEN LowerOf[c] ELSE c

\* String.prototype.toLowerCase
toLowerCase(s) == [i \in 1..Len(s) |-> LowerChar(s[i])]

\* String.prototype.includes
includes(s, p) ==
    \E i \in 0..(Len(s) - Len(p)) : SubSeq(s, i + 1, i + Len(p)) = p

Null == [t |-> "null"]
Str(s) == [t |-> "str", v |-> s]
\* JavaScript truthiness of a string, a non-zero number or null (!!x)
Truthy(x) == (x.t = "str" /\ x.v # <<>>) \/ x.t = "num"

\* the string literals of the code
Lit ==
  [
    pdf |-> <<".","p","d","f">>,
    repositories |-> <<"/","r","e","p","o","s","i","t","o","r","i","e","s","/">>,
    qpath |-> <<"?","p","a","t","h","=">>,
    ctpdf |-> <<"c","o","n","t","e","n","t","-","t","y","p","e","=","a","p","p","l","i","c","a","t","i","o","n","/","p","d","f">>,
    assets |-> <<"/","a","s","s","e","t","s","/">>,
    documents |-> <<"/","d","o","c","u","m","e","n","t","s","/">>,
    uploads |-> <<"/","u","p","l","o","a","d","s","/">>,
    bbp |-> <<"/","c","o","n","t","e","n","t","/","b","b","p","/","r","e","p","o","s","i","t","o","r","i","e","s","/">>,
    path |-> <<"p","a","t","h","=">>,
    pdfword |-> <<"p","d","f">>,
    terms |-> <<"t","e","r","m","s">>,
    condition |-> <<"c","o","n","d","i","t","i","o","n">>,
    clickhere |-> <<"c","l","i","c","k"," ","h","e","r","e">>,
    faq |-> <<"f","a","q">>,
    detailedterms |-> <<"d","e","t","a","i","l","e","d"," ","t","e","r","m","s">>,
    tandc |-> <<"t","&","c">>,
    tnc |-> <<"t","n","c">>,
    repositoriesword |-> <<"r","e","p","o","s","i","t","o","r","i","e","s">>,
    click |-> <<"c","l","i","c","k">>,
    term |-> <<"t","e","r","m">>,
    card |-> <<"c","a","r","d">>,
    offer |-> <<"o","f","f","e","r">>,
    deal |-> <<"d","e","a","l">>,
    promo |-> <<"p","r","o","m","o">>,
    smartbuy |-> <<"s","m","a","r","t","b","u","y">>,
    reward |-> <<"r","e","w","a","r","d">>,
    point |-> <<"p","o","i","n","t">>,
    cashback |-> <<"c","a","s","h","b","a","c","k">>,
    benefit |-> <<"b","e","n","e","f","i","t">>,
    perk |-> <<"p","e","r","k">>,
    partner |-> <<"p","a","r","t","n","e","r">>,
    merchant |-> <<"m","e","r","c","h","a","n","t">>,
    dining |-> <<"d","i","n","i","n","g">>,
    travel |-> <<"t","r","a","v","e","l">>,
    shopping |-> <<"s","h","o","p","p","i","n","g">>,
    feature |-> <<"f","e","a","t","u","r","e">>,
    control |-> <<"c","o","n","t","r","o","l">>,
    manage |-> <<"m","a","n","a","g","e">>,
    payzapp |-> <<"p","a","y","z","a","p","p">>,
    emi |-> <<"e","m","i">>,
    pixel |-> <<"p","i","x","e","l">>,
    http |-> <<"h","t","t","p">>,
    httpScheme |-> <<"h","t","t","p",":","/","/">>,
    httpsScheme |-> <<"h","t","t","p","s",":","/","/">>
  ]

\* the URLs a crawl or a link extraction is started on
Url ==
  [
    \* "https://b.in/cards/regalia"
    web |-> <<"h","t","t","p","s",":","/","/","b",".","i","n","/","c","a","r","d","s","/","r","e","g","a","l","i","a">>,
    \* "https://b.in/Regalia-TnC.PDF"
    pdf |-> <<"h","t","t","p","s",":","/","/","b",".","i","n","/","R","e","g","a","l","i","a","-","T","n","C",".","P","D","F">>,
    \* "https://b.in/content/bbp/repositories/r?path=/a.pdf"
    repo |-> <<"h","t","t","p","s",":","/","/","b",".","i","n","/","c","o","n","t","e","n","t","/","b","b","p","/","r","e","p","o","s","i","t","o","r","i","e","s","/","r","?","p","a","t","h","=","/","a",".","p","d","f">>,
    \* "https://www.hdfcbank.com/cards"
    hdfcbank |-> <<"h","t","t","p","s",":","/","/","w","w","w",".","h","d","f","c","b","a","n","k",".","c","o","m","/","c","a","r","d","s">>,
    \* "https://www.axisbank.com/cards"
    axisbank |-> <<"h","t","t","p","s",":","/","/","w","w","w",".","a","x","i","s","b","a","n","k",".","c","o","m","/","c","a","r","d","s">>
  ]

\* the URLs a crawl is started on
Urls == {Url.web, Url.pdf, Url.repo}

\* page titles
Title ==
  [
    \* "Regalia Gold Credit Card"
    page |-> <<"R","e","g","a","l","i","a"," ","G","o","l","d"," ","C","r","e","d","i","t"," ","C","a","r","d">>,
    \* "No title found"
    none |-> <<"N","o"," ","t","i","t","l","e"," ","f","o","u","n","d">>,
    \* "PDF Extraction Failed"
    pdfFailed |-> <<"P","D","F"," ","E","x","t","r","a","c","t","i","o","n"," ","F","a","i","l","e","d">>,
    \* "Extraction Error"
    extractionError |-> <<"E","x","t","r","a","c","t","i","o","n"," ","E","r","r","o","r">>
  ]

\* the titles extractPageContent returns: document.title, or the literal
PageTitles == {Title.page, Title.none}

\* card names a record can carry
CardName ==
  [
    \* "Regalia Gold"
    regalia |-> <<"R","e","g","a","l","i","a"," ","G","o","l","d">>,
    \* "Unknown Card"
    unknown |-> <<"U","n","k","n","o","w","n"," ","C","a","r","d">>,
    \* "Not found"
    notfound |-> <<"N","o","t"," ","f","o","u","n","d">>,
    \* "Terror Card" (contains "error")
    terror |-> <<"T","e","r","r","o","r"," ","C","a","r","d">>,
    \* "NOT FOUND"
    NOTFOUND |-> <<"N","O","T"," ","F","O","U","N","D">>
  ]

\* bank names a record can carry
BankName ==
  [
    \* "HDFC Bank"
    hdfc |-> <<"H","D","F","C"," ","B","a","n","k">>,
    \* "Error"
    error |-> <<"E","r","r","o","r">>
  ]

\* the words of the placeholder pattern of isDataComplete
Placeholder ==
  [
    unknown |-> <<"u","n","k","n","o","w","n">>,
    not_found |-> <<"n","o","t"," ","f","o","u","n","d">>,
    error |-> <<"e","r","r","o","r">>
  ]

----------------------------------------------------------------------------
(* Text normalizer: cleanText and decodeHtmlEntities *)

\* Characters outside ASCII are written by name: "NBSP" is U+00A0, "ZWSP"
\* U+200B, "ENDASH" U+2013, "EMDASH" U+2014, "ARROW" U+2192.

RECURSIVE replaceAll(_, _, _)
\* String.prototype.replace with a global pattern that is a literal
replaceAll(s, from, to) ==
    IF Len(s) < Len(from) THEN s
    ELSE IF SubSeq(s, 1, Len(from)) = from
    THEN to \o replaceAll(SubSeq(s, Len(from) + 1, Len(s)), from, to)
    ELSE <<s[1]>> \o replaceAll(Tail(s), from, to)

\* .replace(/\s+/g, ' ').trim()
normalizeSpaces(s) ==
    LET space(c) == c \in {" ", "NBSP"}
        kept == {i \in 1..Len(s) : ~space(s[i])}
        lo == CHOOSE i \in kept : \A j \in kept : i <= j
        hi == CHOOSE i \in kept : \A j \in kept : i >= j
        inner == IF kept = {} THEN <<>> ELSE SubSeq(s, lo, hi)
        one == [i \in 1..Len(inner) |-> IF space(inner[i]) THEN " " ELSE inner[i]]
        keep == {i \in 1..Len(one) : ~(one[i] = " " /\ one[i - 1] = " ")}
        pick[n \in 0..Len(one)] ==
            IF n = 0 THEN <<>>
            ELSE IF n \in keep THEN Append(pick[n - 1], one[n]) ELSE pick[n - 1]
    IN  pick[Len(one)]

\* decodeHtmlEntities: the entities and what replaces them, in the order of
\* the replace calls
entities ==
    << << <<"&","n","b","s","p",";">>, <<" ">> >>,
       << <<"&","a","m","p",";">>, <<"&">> >>,
       << <<"&","g","t",";">>, <<">">> >>,
       << <<"&","l","t",";">>, <<"<">> >>,
       << <<"&","q","u","o","t",";">>, <<"\"">> >>,
       << <<"&","#","3","9",";">>, <<"'">> >>,
       << <<"&","r","s","q","u","o",";">>, <<"'">> >>,
       << <<"&","l","s","q","u","o",";">>, <<"'">> >>,
       << <<"&","h","e","l","l","i","p",";">>, <<".",".",".">> >>,
       << <<"&","m","d","a","s","h",";">>, <<"EMDASH">> >>,
       << <<"&","n","d","a","s","h",";">>, <<"ENDASH">> >>,
       << <<"&","p","r","i","m","e",";">>, <<"'">> >>,
       << <<"&","P","r","i","m","e",";">>, <<"\"">> >>,
       << <<"&","l","d","q","u","o",";">>, <<"\"">> >>,
       << <<"&","r","d","q","u","o",";">>, <<"\"">> >>,
       << <<"ZWSP">>, <<>> >> >>

\* decodeHtmlEntities(text) for a string
decodeHtmlEntities(text) ==
    LET step[n \in 0..Len(entities)] ==
            IF n = 0 THEN text
            ELSE replaceAll(step[n - 1], entities[n][1], entities[n][2])
    IN  normalizeSpaces(step[Len(entities)])

RECURSIVE removeTags(_)
\* .replace(/<[^>]*>/g, '')
removeTags(s) ==
    IF s = <<>> THEN <<>>
    ELSE IF s[1] = "<" /\ \E i \in 2..Len(s) : s[i] = ">"
    THEN removeTags(SubSeq(s, 1 + (CHOOSE i \in 2..Len(s) :
                                      s[i] = ">" /\ \A j \in 2..(i - 1) : s[j] # ">"), Len(s)))
    ELSE <<s[1]>> \o removeTags(Tail(s))

\* cleanText(rawText): a falsy value gives '', another value is converted
\* with String() and cleaned
cleanText(rawText) ==
    IF ~Truthy(rawText) THEN <<>>
    ELSE
      LET textToClean == IF rawText.t = "str" THEN rawText.v ELSE rawText.string
          space(c) == c \in {" ", "NBSP"}
          s1 == removeTags(textToClean)
          s2 == replaceAll(s1, <<"ARROW">>, <<"-", ">">>)
          s3 == [i \in 1..Len(s2) |-> IF s2[i] \in {"ENDASH", "EMDASH"} THEN "-" ELSE s2[i]]
          \* [''"] becomes ' and then ["'"] becomes "
          s4 == [i \in 1..Len(s3) |-> IF s3[i] \in {"'", "\""} THEN "\"" ELSE s3[i]]
          s5 == [i \in 1..Len(s4) |-> IF s4[i] = "NBSP" THEN " " ELSE s4[i]]
          \* /\s*-\s*$/: the last character that is not a space is a dash
          solid == {i \in 1..Len(s5) : ~space(s5[i])}
          last == CHOOSE i \in solid : \A j \in solid : i >= j
          before == {i \in 1..(last - 1) : ~space(s5[i])}
          prev == IF before = {} THEN 0 ELSE CHOOSE i \in before : \A j \in before : i >= j
          s6 == IF solid # {} /\ s5[last] = "-" THEN SubSeq(s5, 1, prev) ELSE s5
          \* /^-\s*/
          rest == {i \in 2..Len(s6) : ~space(s6[i])}
          s7 == IF s6 # <<>> /\ s6[1] = "-"
                THEN (IF rest = {} THEN <<>>
                      ELSE SubSeq(s6, CHOOSE i \in rest : \A j \in rest : i <= j, Len(s6)))
                ELSE s6
          s8 == replaceAll(s7, <<"-", ">">>, <<" ", "-", ">", " ">>)
      IN  decodeHtmlEntities(normalizeSpaces(s8))

\* the pieces the inputs of cleanText are made of
TextPieces ==
    { <<"a">>, <<" ">>, <<"-">>, <<"'">>, <<"<","b",">">>, <<"n","b","s","p",";">>,
      <<"&","a","m","p",";">>, <<"&","l","t",";">>, <<"&","g","t",";">>,
      <<"&","m","d","a","s","h",";">> }

\* pieces in one input
MaxPieces == 3

\* the inputs of cleanText: null, the empty string, the numbers 0 and 42, and
\* the strings of at most MaxPieces pieces
TextInputs ==
    LET join(q) == LET acc[n \in 0..Len(q)] == IF n = 0 THEN <<>> ELSE acc[n - 1] \o q[n]
                   IN  acc[Len(q)]
    IN  {Null, [t |-> "zero"], [t |-> "num", string |-> <<"4","2">>]}
        \cup { Str(join(q)) : q \in UNION {[1..n -> TextPieces] : n \in 0..MaxPieces} }

----------------------------------------------------------------------------
(* State *)

VARIABLES
    pc,             \* position of the current crawlCardBenefits call
    crawls,         \* crawlCardBenefits calls started on this crawler
    url,            \* the URL of the current call
    retryCount,     \* extractPdfContent / extractWebContent: retryCount
    nav,            \* navigateWithFallbacks: strategy in use (0: not navigating), lastError,
                    \* what the strategy tried last did, how the call ended
    fetchLog,       \* history: the outcome (TRUE = succeeded) of each attempt of the
                    \* extractFromUrl call that is running or has just returned
    mainContent,    \* the value extractFromUrl returned
    links,          \* extractLinks' result, in processing order
    li,             \* processLinks: index of the next link (1-based)
    processedLinks, \* processLinks: processedLinks
    failedLinks,    \* processLinks: failedLinks
    processedUrls,  \* LinkProcessor.processedUrls (lives as long as the crawler)
    maxLinks,       \* LinkProcessor.maxLinks, set by the constructor (0 = no limit)
    result,         \* what crawlCardBenefits returned
    filesWritten,   \* history: the files this call wrote to json_results
    hist            \* history: which collaborators failed during this call

crawlVars == <<pc, crawls, url, retryCount, nav, fetchLog, mainContent, links, li,
               processedLinks, failedLinks, processedUrls, maxLinks, result, filesWritten,
               hist>>

VARIABLES
    lpc,            \* position of the crawlCardListing call
    candidates,     \* extractedData.cards: what the model proposed
    ci,             \* postProcessAndValidateUrls: index of the next candidate (1-based)
    validCards,     \* postProcessAndValidateUrls: validCards
    invalidUrls,    \* postProcessAndValidateUrls: invalidUrls
    headLog,        \* history: the candidates a HEAD request was sent for
    lastHead,       \* history: the last HEAD outcome and what validateUrlAccessibility returned
    listingData,    \* what extractCardUrls returned
    vi,             \* crawlCardListing: index of the next validated card (1-based)
    okCards,        \* crawlCardListing: processedCards
    failedCards,    \* crawlCardListing: failedCards
    cardResults,    \* history: what crawlCardBenefits returned for each visited card
    report          \* what crawlCardListing returned

listVars == <<lpc, candidates, ci, validCards, invalidUrls, headLog, lastHead,
              listingData, vi, okCards, failedCards, cardResults, report>>

VARIABLES
    record,         \* the record isDataComplete is called on
    verdict,        \* "unchecked", or what isDataComplete returned: "true" / "false"
    score           \* unscored, raised, or the number calculateConfidenceScore
                    \* returned, in hundredths

completeVars == <<record, verdict, score>>

VARIABLES
    page,           \* the page extractLinks is called on: its URL and its anchors
    judged,         \* what isRelevantLink and classifyLink returned for each anchor so far
    ranked          \* what extractLinks returned

linkVars == <<page, judged, ranked>>

VARIABLES
    raw,            \* the value cleanText is first called on
    cleaned         \* what cleanText returned: for raw, then for its own result

textVars == <<raw, cleaned>>

VARIABLES
    cli,            \* the command-line process: its stage and its exit code
    ai              \* the model calls of one listing run and the token counters
                    \* of the two AIProcessor objects it uses

pureVars == <<completeVars, linkVars, textVars, cli, ai>>

vars == <<crawlVars, listVars, pureVars>>

----------------------------------------------------------------------------
(* Content fetcher: ContentExtractor (fetcher.js) *)

\* extractPdfContent / extractWebContent: const maxRetries = 3
maxRetries == 3

NoError == "none"
NoContent == [kind |-> "none"]
\* what a function returns when its loop ends without a return statement
Undefined == [kind |-> "undefined"]

\* ContentExtractor.isPdfUrl
isPdfUrl(u) ==
    LET urlLower == toLowerCase(u) IN
       \/ includes(urlLower, Lit.pdf)
       \/ includes(urlLower, Lit.repositories)
       \/ includes(urlLower, Lit.qpath)
       \/ includes(urlLower, Lit.ctpdf)
       \/ (includes(urlLower, Lit.assets) /\ includes(urlLower, Lit.pdf))
       \/ includes(urlLower, Lit.documents)
       \/ (includes(urlLower, Lit.uploads) /\ includes(urlLower, Lit.pdf))

\* extractPdfContent: the number of URLs in urlsToTry. A repository URL with a
\* path= parameter gives a second, direct-download URL.
NumUrlsToTry(u) ==
    IF includes(u, Lit.bbp) /\ includes(u, Lit.path) THEN 2 ELSE 1

\* What one download-and-decode of one PDF URL can do.
PdfOutcomes == {"download_error", "not_pdf", "decode_error", "ok"}

\* extractPdfContent, the for loop over urlsToTry: TRUE iff one URL gave a PDF.
\* A download error, a non-PDF content type and a decode error all move on to
\* the next URL.
pdfAttemptOk(outs) == \E i \in 1..Len(outs) : outs[i] = "ok"

\* What page.goto + extractPageContent can do under one navigation strategy.
StrategyOutcomes == {"error", "http_error", "trivial", "good"}

\* navigateWithFallbacks: the strategies array, in the order it is tried
strategies == <<"networkidle2", "domcontentloaded", "load", "networkidle0">>

NoNav == [i |-> 0, lastError |-> NoError, out |-> "none", ended |-> "no"]

\* the same iteration when trivial content is enough to return
navigateWithFallbacksTrivialWins(i, lastError, out) ==
    LET le == IF out = "error" THEN "navigation error"
              ELSE IF out = "http_error" THEN "HTTP error status"
              ELSE lastError
    IN  IF out \in {"good", "trivial"}
        THEN [returned |-> TRUE, threw |-> FALSE, i |-> i, lastError |-> lastError]
        ELSE IF i < Len(strategies) THEN [returned |-> FALSE, threw |-> FALSE, i |-> i + 1, lastError |-> le]
        ELSE [returned |-> FALSE, threw |-> TRUE, i |-> i,
              lastError |-> IF le = NoError THEN "All navigation strategies failed" ELSE le]

\* navigateWithFallbacks, one iteration of the for loop over strategies, on
\* strategy i with the error of the last strategy that threw: the first
\* strategy whose page loaded below HTTP 400 with non-trivial content returns;
\* a strategy that throws sets lastError; after the last strategy the function
\* throws lastError, or a fresh error when no strategy threw.
navigateWithFallbacks(i, lastError, out) ==
    LET le == IF out = "error" THEN "navigation error"
              ELSE IF out = "http_error" THEN "HTTP error status"
              ELSE lastError
    IN  IF out = "good" THEN [returned |-> TRUE, threw |-> FALSE, i |-> i, lastError |-> lastError]
        ELSE IF i < Len(strategies) THEN [returned |-> FALSE, threw |-> FALSE, i |-> i + 1, lastError |-> le]
        ELSE [returned |-> FALSE, threw |-> TRUE, i |-> i,
              lastError |-> IF le = NoError THEN "All navigation strategies failed" ELSE le]

\* The retry loop of extractPdfContent and extractWebContent, one iteration:
\* a successful attempt returns at once; a failed one counts, and the third
\* failure returns the failure-shaped content instead of throwing.
extractRetryOffByOne(rc, attemptOk, good, bad) ==
    IF attemptOk THEN [done |-> TRUE, retryCount |-> rc, value |-> good]
    ELSE IF rc + 1 <= maxRetries THEN [done |-> FALSE, retryCount |-> rc + 1, value |-> NoContent]
    ELSE [done |-> TRUE, retryCount |-> rc + 1, value |-> bad]

extractRetry(rc, attemptOk, good, bad) ==
    IF attemptOk THEN [done |-> TRUE, retryCount |-> rc, value |-> good]
    ELSE IF rc + 1 < maxRetries THEN [done |-> FALSE, retryCount |-> rc + 1, value |-> NoContent]
    ELSE [done |-> TRUE, retryCount |-> rc + 1, value |-> bad]

\* while (retryCount < maxRetries): the loop goes on after an iteration that
\* did not return only while the condition holds; leaving it that way ends
\* the function without a value
loopExit(r) ==
    IF r.done THEN [pc |-> "fetched", content |-> r.value]
    ELSE IF r.retryCount < maxRetries THEN [pc |-> "fetch", content |-> NoContent]
    ELSE [pc |-> "fetched", content |-> Undefined]

\* the PageContent extractPdfContent returns on success and after the last retry
pdfContentOk(title, textLength) ==
    [kind |-> "content", success |-> TRUE, contentType |-> "pdf", error |-> NoError,
     title |-> Str(title), links |-> <<>>, textLength |-> textLength]
pdfContentFailed(err) ==
    [kind |-> "content", success |-> FALSE, contentType |-> "pdf", error |-> err,
     title |-> Str(Title.pdfFailed),
     links |-> <<>>]

\* the PageContent extractWebContent returns on success and after the last retry
webContentOk(title, anchors) ==
    [kind |-> "content", success |-> TRUE, contentType |-> "web", error |-> NoError,
     title |-> Str(title), links |-> anchors]
webContentFailed(err) ==
    [kind |-> "content", success |-> FALSE, contentType |-> "web", error |-> err,
     title |-> Null, links |-> <<>>]

----------------------------------------------------------------------------
(* Extracted records *)

\* a JavaScript array, or null/undefined
Arr(q) == [t |-> "arr", v |-> q]
\* (x?.length || 0)
Length(x) == IF x.t = "arr" THEN Len(x.v) ELSE 0

Card(name, bank) == [t |-> "obj", name |-> name, bank |-> bank]
Earning(categories) == [t |-> "obj", categories |-> categories]
Rewards(earning) == [t |-> "obj", earning |-> earning]

\* the fields of a standard record that the orchestrator reads
Data(card, benefits, offers, perks, rewards) ==
    [t |-> "obj", card |-> card, benefits |-> benefits, current_offers |-> offers,
     perks |-> perks, rewards |-> rewards]

\* the same test without the i flag
placeholderTestCaseSensitive(s) ==
    includes(s, Placeholder.unknown) \/ includes(s, Placeholder.not_found) \/ includes(s, Placeholder.error)

\* /unknown|not found|error/i.test(s)
placeholderTest(s) ==
    LET lower == toLowerCase(s) IN
       \/ includes(lower, Placeholder.unknown)
       \/ includes(lower, Placeholder.not_found)
       \/ includes(lower, Placeholder.error)

\* !!data.card?.X && data.card.X !== 'Not found' && !/unknown|not found|error/i.test(data.card.X)
fieldPresent(card, x) ==
    /\ card.t = "obj"
    /\ Truthy(x)
    /\ x.v # CardName.notfound
    /\ ~placeholderTest(x.v)

\* CardholderBenefitsCrawler.isDataComplete; reading data.card of a null record
\* raises inside the try, and the catch returns false
isDataComplete(data) ==
    IF data.t # "obj" THEN FALSE
    ELSE
      LET namePresent == data.card.t = "obj" /\ fieldPresent(data.card, data.card.name)
          bankPresent == data.card.t = "obj" /\ fieldPresent(data.card, data.card.bank)
          hasBenefits == Length(data.benefits) > 0
          hasOffers == Length(data.current_offers) > 0
          hasPerks == Length(data.perks) > 0
          hasEarnCats == /\ data.rewards.t = "obj"
                         /\ data.rewards.earning.t = "obj"
                         /\ Length(data.rewards.earning.categories) > 0
          hasContent == hasBenefits \/ hasOffers \/ hasPerks \/ hasEarnCats
      IN  namePresent /\ bankPresent /\ hasContent

EmptyRewards == Rewards(Earning(Arr(<<>>)))

\* a score that is the sum of the weights
calculateConfidenceScoreUndivided(data) ==
    IF data.t # "obj" THEN [t |-> "raised"]
    ELSE LET has(x) == Length(x) > 0
             name == IF data.card.t = "obj" THEN data.card.name ELSE Null
             bank == IF data.card.t = "obj" THEN data.card.bank ELSE Null
             earning == IF data.rewards.t = "obj" THEN data.rewards.earning ELSE Null
             categories == IF earning.t = "obj" THEN earning.categories ELSE Null
         IN  [t |-> "num",
              v |-> 100 * ((IF Truthy(name) THEN 20 ELSE 0) + (IF Truthy(bank) THEN 20 ELSE 0)
                           + (IF has(categories) THEN 20 ELSE 0) + (IF has(data.benefits) THEN 20 ELSE 0)
                           + (IF has(data.current_offers) THEN 20 ELSE 0))]

\* AIProcessor.calculateConfidenceScore: Math.round(score / 100), in
\* hundredths; reading data.card of a missing record raises
calculateConfidenceScore(data) ==
    IF data.t # "obj" THEN [t |-> "raised"]
    ELSE LET has(x) == Length(x) > 0
             name == IF data.card.t = "obj" THEN data.card.name ELSE Null
             bank == IF data.card.t = "obj" THEN data.card.bank ELSE Null
             earning == IF data.rewards.t = "obj" THEN data.rewards.earning ELSE Null
             categories == IF earning.t = "obj" THEN earning.categories ELSE Null
             sum == (IF Truthy(name) THEN 20 ELSE 0) + (IF Truthy(bank) THEN 20 ELSE 0)
                    + (IF has(categories) THEN 20 ELSE 0) + (IF has(data.benefits) THEN 20 ELSE 0)
                    + (IF has(data.current_offers) THEN 20 ELSE 0)
         IN  [t |-> "num", v |-> 100 * ((2 * sum + 100) \div 200)]

\* a fallback that invents a bank and a benefit
createFallbackInvented(content) ==
    Data(Card(IF Truthy(content.title) THEN content.title ELSE Null, Str(BankName.hdfc)),
         Arr(<<"lounge">>), Arr(<<>>), Arr(<<>>), EmptyRewards)

\* AIProcessor.createFallbackExtraction: what processContent returns when the
\* model call, the truncation check or the JSON parse raised
createFallbackExtraction(content) ==
    Data(Card(IF Truthy(content.title) THEN content.title ELSE Null, Null),
         Arr(<<>>), Arr(<<>>), Arr(<<>>), EmptyRewards)

\* What the model call and the parse of its answer can do.
ModelOutcomes == {"api_error", "truncated", "bad_json", "ok"}

\* a processContent that calls the model again after a failure
modelCallsWithRetry(mo) == IF mo = "ok" THEN 1 ELSE 2

\* AIProcessor.processContent: chat.completions.create is called once,
\* whatever the call and the parse of its answer do
modelCalls(mo) == 1

\* AIProcessor.processContent: every failure inside the try is caught and
\* answered with the fallback extraction; nothing is raised to the caller.
processContent(mo, parsed, content) ==
    IF mo = "ok" THEN parsed ELSE createFallbackExtraction(content)

\* the record createErrorResult builds
ErrorData == Data(Card(Null, Null), Arr(<<>>), Arr(<<>>), Arr(<<>>), EmptyRewards)

\* Standard records the model returns in the crawl specification
CompleteData == Data(Card(Str(CardName.regalia), Str(BankName.hdfc)), Arr(<<"lounge">>), Arr(<<>>), Arr(<<>>), EmptyRewards)
ModelRecords ==
    { CompleteData,
      Data(Card(Str(CardName.regalia), Str(BankName.hdfc)), Arr(<<>>), Arr(<<>>), Arr(<<>>), EmptyRewards),
      Data(Card(Str(CardName.regalia), Str(BankName.hdfc)), Arr(<<>>), Arr(<<>>), Arr(<<"golf">>), Null),
      Data(Card(Str(CardName.unknown), Str(BankName.hdfc)), Arr(<<"lounge">>), Arr(<<>>), Arr(<<>>), EmptyRewards),
      Data(Card(Str(CardName.regalia), Null), Arr(<<"lounge">>), Arr(<<"10% off">>), Arr(<<>>), EmptyRewards),
      Data(Null, Null, Null, Null, Null) }

----------------------------------------------------------------------------
(* Orchestrator results: CardholderBenefitsCrawler (crawler.js) *)

NoResult == [status |-> "none"]

\* saveResults: two writes, the second only after the first; a failed write
\* raises out of saveResults
saveResults(standardResult, w1, w2) ==
    IF w1 /\ w2
    THEN [raised |-> FALSE, files |-> {"standard", "structured"},
          value |-> [status |-> "returned", valid |-> TRUE, reason |-> "none",
                     error |-> NoError, standard |-> standardResult,
                     files |-> {"standard", "structured"}]]
    ELSE [raised |-> TRUE, files |-> IF w1 THEN {"standard"} ELSE {},
          value |-> NoResult]

\* createErrorResult without the write of the error file
createErrorResultNoWrite(message, we) ==
    [files |-> {},
     value |-> [status |-> "returned", valid |-> FALSE, reason |-> "extraction_error",
                error |-> message, standard |-> ErrorData, files |-> {"error"}]]

\* createErrorResult: writes the error file; when that write raises, the
\* catch returns the critical_error shape
createErrorResult(message, we) ==
    IF we
    THEN [files |-> {"error"},
          value |-> [status |-> "returned", valid |-> FALSE, reason |-> "extraction_error",
                     error |-> message, standard |-> ErrorData, files |-> {"error"}]]
    ELSE [files |-> {},
          value |-> [status |-> "returned", valid |-> FALSE, reason |-> "critical_error",
                     error |-> message, standard |-> Null, files |-> {}]]

\* the same step with the completeness check dropped
validateAndSaveUnchecked(standardResult, w1, w2, we) ==
    LET s == saveResults(standardResult, w1, w2)
        e == createErrorResult("save error", we)
    IN  IF ~s.raised
        THEN [files |-> s.files, saveFailed |-> FALSE, value |-> s.value]
        ELSE [files |-> s.files \cup e.files, saveFailed |-> TRUE, value |-> e.value]

\* crawlCardBenefits, STEP-5 and STEP-6 with the catch: validate, then save
validateAndSave(standardResult, w1, w2, we) ==
    IF ~isDataComplete(standardResult)
    THEN [files |-> {}, saveFailed |-> FALSE,
          value |-> [status |-> "returned", valid |-> FALSE, reason |-> "incomplete_data",
                     error |-> NoError, standard |-> standardResult, files |-> {}]]
    ELSE LET s == saveResults(standardResult, w1, w2)
             e == createErrorResult("save error", we)
         IN  IF ~s.raised
             THEN [files |-> s.files, saveFailed |-> FALSE, value |-> s.value]
             ELSE [files |-> s.files \cup e.files, saveFailed |-> TRUE, value |-> e.value]

\* CardholderBenefitsCrawler.isPdfDataComplete: reads content.text and title
\* of the standard record it is given (text lengths are character counts)
isPdfDataComplete(data) ==
    LET hasContent == /\ "content" \in DOMAIN data
                      /\ data.content.t = "obj"
                      /\ data.content.textLength > 100
        hasTitle == /\ "title" \in DOMAIN data
                    /\ Truthy(data.title)
                    /\ data.title.v # Title.pdfFailed
                    /\ data.title.v # Title.extractionError
    IN  hasContent /\ hasTitle

\* processPdfDocument after processContent: always saves, with its own catch
pdfSave(standardResult, w1, w2, we) ==
    LET s == saveResults(standardResult, w1, w2)
        e == createErrorResult("save error", we)
    IN  IF ~s.raised
        THEN [files |-> s.files, saveFailed |-> FALSE, value |-> s.value]
        ELSE [files |-> s.files \cup e.files, saveFailed |-> TRUE, value |-> e.value]

----------------------------------------------------------------------------
(* Link processor: LinkProcessor (linkProcessor.js) *)

\* String.prototype.startsWith
startsWith(s, p) == Len(s) >= Len(p) /\ SubSeq(s, 1, Len(p)) = p

Digits == {"0","1","2","3","4","5","6","7","8","9"}

\* The regular expressions of isRelevantLink, as data.  Each is a chain of
\* literal segments: gaps[k] says what stands between segment k and k+1
\* ("opt" for .? and "star" for .*), pre and end are the anchors ^ and $,
\* digits is a leading \\d+, and neg is the word of a trailing (?!.*word).
\* All carry the flag i and are applied to lower-cased strings.
irrelevantPatterns ==
  <<
    [pre |-> TRUE, end |-> TRUE, digits |-> FALSE, neg |-> <<>>, segs |-> << <<"h","o","m","e">> >>, gaps |-> <<>>],
    [pre |-> TRUE, end |-> TRUE, digits |-> FALSE, neg |-> <<>>, segs |-> << <<"c","o","n","t","a","c","t">> >>, gaps |-> <<>>],
    [pre |-> TRUE, end |-> TRUE, digits |-> FALSE, neg |-> <<>>, segs |-> << <<"a","b","o","u","t">> >>, gaps |-> <<>>],
    [pre |-> TRUE, end |-> FALSE, digits |-> FALSE, neg |-> <<>>, segs |-> << <<"p","r","i","v","a","c","y">> >>, gaps |-> <<>>],
    [pre |-> TRUE, end |-> TRUE, digits |-> FALSE, neg |-> <<>>, segs |-> << <<"s","i","t","e","m","a","p">> >>, gaps |-> <<>>],
    [pre |-> TRUE, end |-> TRUE, digits |-> FALSE, neg |-> <<>>, segs |-> << <<"h","e","l","p">> >>, gaps |-> <<>>],
    [pre |-> TRUE, end |-> TRUE, digits |-> FALSE, neg |-> <<>>, segs |-> << <<"s","u","p","p","o","r","t">> >>, gaps |-> <<>>],
    [pre |-> TRUE, end |-> FALSE, digits |-> FALSE, neg |-> <<>>, segs |-> << <<"c","u","s","t","o","m","e","r">> >>, gaps |-> <<>>],
    [pre |-> TRUE, end |-> TRUE, digits |-> FALSE, neg |-> <<>>, segs |-> << <<"f","a","q">> >>, gaps |-> <<>>],
    [pre |-> FALSE, end |-> FALSE, digits |-> FALSE, neg |-> <<>>, segs |-> << <<"n","e","t","b","a","n","k","i","n","g">> >>, gaps |-> <<>>],
    [pre |-> FALSE, end |-> FALSE, digits |-> FALSE, neg |-> <<>>, segs |-> << <<"n","e","t">>, <<"b","a","n","k","i","n","g">> >>, gaps |-> <<"opt">>],
    [pre |-> FALSE, end |-> FALSE, digits |-> FALSE, neg |-> <<>>, segs |-> << <<"o","n","l","i","n","e">>, <<"b","a","n","k","i","n","g">> >>, gaps |-> <<"opt">>],
    [pre |-> FALSE, end |-> FALSE, digits |-> FALSE, neg |-> <<>>, segs |-> << <<"d","i","g","i","t","a","l">>, <<"b","a","n","k","i","n","g">> >>, gaps |-> <<"opt">>],
    [pre |-> FALSE, end |-> FALSE, digits |-> FALSE, neg |-> <<>>, segs |-> << <<"b","u","s","i","n","e","s","s">>, <<"b","a","n","k","i","n","g">> >>, gaps |-> <<"opt">>],
    [pre |-> FALSE, end |-> FALSE, digits |-> FALSE, neg |-> <<>>, segs |-> << <<"s","m","e">> >>, gaps |-> <<>>],
    [pre |-> FALSE, end |-> FALSE, digits |-> FALSE, neg |-> <<>>, segs |-> << <<"c","o","r","p","o","r","a","t","e">> >>, gaps |-> <<>>],
    [pre |-> FALSE, end |-> FALSE, digits |-> FALSE, neg |-> <<>>, segs |-> << <<"w","e","a","l","t","h">> >>, gaps |-> <<>>],
    [pre |-> FALSE, end |-> FALSE, digits |-> FALSE, neg |-> <<"c","a","r","d">>, segs |-> << <<"l","o","a","n">> >>, gaps |-> <<>>],
    [pre |-> FALSE, end |-> FALSE, digits |-> FALSE, neg |-> <<>>, segs |-> << <<"d","e","p","o","s","i","t">> >>, gaps |-> <<>>],
    [pre |-> FALSE, end |-> FALSE, digits |-> FALSE, neg |-> <<>>, segs |-> << <<"i","n","v","e","s","t","m","e","n","t">> >>, gaps |-> <<>>],
    [pre |-> FALSE, end |-> FALSE, digits |-> FALSE, neg |-> <<>>, segs |-> << <<"m","u","t","u","a","l">>, <<"f","u","n","d">> >>, gaps |-> <<"opt">>],
    [pre |-> FALSE, end |-> FALSE, digits |-> FALSE, neg |-> <<"c","a","r","d">>, segs |-> << <<"i","n","s","u","r","a","n","c","e">> >>, gaps |-> <<>>],
    [pre |-> FALSE, end |-> FALSE, digits |-> FALSE, neg |-> <<>>, segs |-> << <<"l","i","f","e">>, <<"i","n","s","u","r","a","n","c","e">> >>, gaps |-> <<"opt">>],
    [pre |-> FALSE, end |-> FALSE, digits |-> FALSE, neg |-> <<>>, segs |-> << <<"h","e","a","l","t","h">>, <<"i","n","s","u","r","a","n","c","e">> >>, gaps |-> <<"opt">>],
    [pre |-> FALSE, end |-> FALSE, digits |-> FALSE, neg |-> <<>>, segs |-> << <<"v","e","h","i","c","l","e">>, <<"i","n","s","u","r","a","n","c","e">> >>, gaps |-> <<"opt">>],
    [pre |-> FALSE, end |-> FALSE, digits |-> FALSE, neg |-> <<>>, segs |-> << <<"t","r","a","v","e","l">>, <<"i","n","s","u","r","a","n","c","e">> >>, gaps |-> <<"opt">>],
    [pre |-> FALSE, end |-> FALSE, digits |-> FALSE, neg |-> <<>>, segs |-> << <<"c","y","b","e","r">>, <<"i","n","s","u","r","a","n","c","e">> >>, gaps |-> <<"opt">>],
    [pre |-> FALSE, end |-> FALSE, digits |-> FALSE, neg |-> <<>>, segs |-> << <<"p","e","r","s","o","n","a","l">>, <<"a","c","c","i","d","e","n","t">> >>, gaps |-> <<"opt">>],
    [pre |-> FALSE, end |-> FALSE, digits |-> FALSE, neg |-> <<>>, segs |-> << <<"m","e","d","i","c","l","a","i","m">> >>, gaps |-> <<>>],
    [pre |-> FALSE, end |-> FALSE, digits |-> FALSE, neg |-> <<>>, segs |-> << <<"c","r","i","t","i","c","a","l">>, <<"i","l","l","n","e","s","s">> >>, gaps |-> <<"opt">>],
    [pre |-> FALSE, end |-> FALSE, digits |-> FALSE, neg |-> <<>>, segs |-> << <<"b","i","l","l">>, <<"p","a","y","m","e","n","t">> >>, gaps |-> <<"opt">>],
    [pre |-> FALSE, end |-> FALSE, digits |-> FALSE, neg |-> <<>>, segs |-> << <<"p","r","e","m","i","u","m">>, <<"p","a","y","m","e","n","t">> >>, gaps |-> <<"opt">>],
    [pre |-> FALSE, end |-> FALSE, digits |-> FALSE, neg |-> <<>>, segs |-> << <<"u","t","i","l","i","t","y">> >>, gaps |-> <<>>],
    [pre |-> FALSE, end |-> FALSE, digits |-> FALSE, neg |-> <<>>, segs |-> << <<"e","l","e","c","t","r","i","c","i","t","y">> >>, gaps |-> <<>>],
    [pre |-> FALSE, end |-> FALSE, digits |-> FALSE, neg |-> <<>>, segs |-> << <<"g","a","s">>, <<"b","i","l","l">> >>, gaps |-> <<"opt">>],
    [pre |-> FALSE, end |-> FALSE, digits |-> FALSE, neg |-> <<>>, segs |-> << <<"w","a","t","e","r">>, <<"b","i","l","l">> >>, gaps |-> <<"opt">>],
    [pre |-> FALSE, end |-> FALSE, digits |-> FALSE, neg |-> <<>>, segs |-> << <<"m","o","b","i","l","e">>, <<"r","e","c","h","a","r","g","e">> >>, gaps |-> <<"opt">>],
    [pre |-> FALSE, end |-> FALSE, digits |-> FALSE, neg |-> <<>>, segs |-> << <<"d","t","h">> >>, gaps |-> <<>>],
    [pre |-> FALSE, end |-> FALSE, digits |-> FALSE, neg |-> <<>>, segs |-> << <<"b","r","o","a","d","b","a","n","d">> >>, gaps |-> <<>>],
    [pre |-> FALSE, end |-> FALSE, digits |-> FALSE, neg |-> <<>>, segs |-> << <<"l","a","n","d","l","i","n","e">> >>, gaps |-> <<>>],
    [pre |-> FALSE, end |-> FALSE, digits |-> FALSE, neg |-> <<>>, segs |-> << <<"d","o","n","a","t","i","o","n">> >>, gaps |-> <<>>],
    [pre |-> FALSE, end |-> FALSE, digits |-> FALSE, neg |-> <<>>, segs |-> << <<"r","e","l","i","g","i","o","u","s">> >>, gaps |-> <<>>],
    [pre |-> FALSE, end |-> FALSE, digits |-> FALSE, neg |-> <<>>, segs |-> << <<"l","o","g","i","n">> >>, gaps |-> <<>>],
    [pre |-> FALSE, end |-> FALSE, digits |-> FALSE, neg |-> <<>>, segs |-> << <<"s","i","g","n">>, <<"i","n">> >>, gaps |-> <<"opt">>],
    [pre |-> FALSE, end |-> FALSE, digits |-> FALSE, neg |-> <<>>, segs |-> << <<"s","i","g","n">>, <<"u","p">> >>, gaps |-> <<"opt">>],
    [pre |-> FALSE, end |-> FALSE, digits |-> FALSE, neg |-> <<>>, segs |-> << <<"r","e","g","i","s","t","e","r">> >>, gaps |-> <<>>],
    [pre |-> FALSE, end |-> FALSE, digits |-> FALSE, neg |-> <<>>, segs |-> << <<"f","o","r","g","o","t">>, <<"p","a","s","s","w","o","r","d">> >>, gaps |-> <<"opt">>],
    [pre |-> FALSE, end |-> FALSE, digits |-> FALSE, neg |-> <<>>, segs |-> << <<"r","e","s","e","t">>, <<"p","a","s","s","w","o","r","d">> >>, gaps |-> <<"opt">>],
    [pre |-> FALSE, end |-> FALSE, digits |-> FALSE, neg |-> <<>>, segs |-> << <<"o","t","p">> >>, gaps |-> <<>>],
    [pre |-> FALSE, end |-> FALSE, digits |-> FALSE, neg |-> <<>>, segs |-> << <<"v","e","r","i","f","y">> >>, gaps |-> <<>>],
    [pre |-> FALSE, end |-> FALSE, digits |-> FALSE, neg |-> <<>>, segs |-> << <<"a","c","t","i","v","a","t","e">> >>, gaps |-> <<>>],
    [pre |-> FALSE, end |-> FALSE, digits |-> FALSE, neg |-> <<>>, segs |-> << <<"e","n","r","o","l","l">> >>, gaps |-> <<>>],
    [pre |-> FALSE, end |-> FALSE, digits |-> FALSE, neg |-> <<>>, segs |-> << <<"n","e","t","s","a","f","e">> >>, gaps |-> <<>>],
    [pre |-> FALSE, end |-> FALSE, digits |-> FALSE, neg |-> <<>>, segs |-> << <<"v","e","r","i","f","i","e","d">>, <<"b","y">>, <<"v","i","s","a">> >>, gaps |-> <<"opt", "opt">>],
    [pre |-> FALSE, end |-> FALSE, digits |-> FALSE, neg |-> <<>>, segs |-> << <<"m","a","s","t","e","r","c","a","r","d">>, <<"s","e","c","u","r","e","c","o","d","e">> >>, gaps |-> <<"opt">>],
    [pre |-> FALSE, end |-> FALSE, digits |-> FALSE, neg |-> <<>>, segs |-> << <<"3","d">>, <<"s","e","c","u","r","e">> >>, gaps |-> <<"opt">>],
    [pre |-> FALSE, end |-> FALSE, digits |-> FALSE, neg |-> <<>>, segs |-> << <<"f","r","a","u","d">> >>, gaps |-> <<>>],
    [pre |-> FALSE, end |-> FALSE, digits |-> FALSE, neg |-> <<"c","a","r","d">>, segs |-> << <<"s","e","c","u","r","i","t","y">> >>, gaps |-> <<>>],
    [pre |-> FALSE, end |-> FALSE, digits |-> FALSE, neg |-> <<>>, segs |-> << <<"a","l","e","r","t">> >>, gaps |-> <<>>],
    [pre |-> FALSE, end |-> FALSE, digits |-> FALSE, neg |-> <<"c","a","r","d">>, segs |-> << <<"s","t","a","t","e","m","e","n","t">> >>, gaps |-> <<>>],
    [pre |-> FALSE, end |-> FALSE, digits |-> FALSE, neg |-> <<>>, segs |-> << <<"p","a","s","s","b","o","o","k">> >>, gaps |-> <<>>],
    [pre |-> FALSE, end |-> FALSE, digits |-> FALSE, neg |-> <<>>, segs |-> << <<"c","h","e","q","u","e">> >>, gaps |-> <<>>],
    [pre |-> FALSE, end |-> FALSE, digits |-> FALSE, neg |-> <<>>, segs |-> << <<"d","d">> >>, gaps |-> <<>>],
    [pre |-> FALSE, end |-> FALSE, digits |-> FALSE, neg |-> <<>>, segs |-> << <<"l","e","a","r","n","i","n","g">>, <<"c","e","n","t","r","e">> >>, gaps |-> <<"opt">>],
    [pre |-> FALSE, end |-> FALSE, digits |-> FALSE, neg |-> <<>>, segs |-> << <<"e","d","u","c","a","t","i","o","n">> >>, gaps |-> <<>>],
    [pre |-> FALSE, end |-> FALSE, digits |-> FALSE, neg |-> <<>>, segs |-> << <<"t","u","t","o","r","i","a","l">> >>, gaps |-> <<>>],
    [pre |-> FALSE, end |-> FALSE, digits |-> FALSE, neg |-> <<"c","a","r","d">>, segs |-> << <<"g","u","i","d","e">> >>, gaps |-> <<>>],
    [pre |-> FALSE, end |-> FALSE, digits |-> FALSE, neg |-> <<>>, segs |-> << <<"c","a","l","c","u","l","a","t","o","r">> >>, gaps |-> <<>>],
    [pre |-> FALSE, end |-> FALSE, digits |-> FALSE, neg |-> <<>>, segs |-> << <<"e","m","i">>, <<"c","a","l","c","u","l","a","t","o","r">> >>, gaps |-> <<"opt">>],
    [pre |-> FALSE, end |-> FALSE, digits |-> FALSE, neg |-> <<>>, segs |-> << <<"l","o","a","n">>, <<"c","a","l","c","u","l","a","t","o","r">> >>, gaps |-> <<"opt">>],
    [pre |-> FALSE, end |-> FALSE, digits |-> FALSE, neg |-> <<"c","a","r","d">>, segs |-> << <<"b","l","o","g">> >>, gaps |-> <<>>],
    [pre |-> FALSE, end |-> FALSE, digits |-> FALSE, neg |-> <<>>, segs |-> << <<"n","e","w","s">> >>, gaps |-> <<>>],
    [pre |-> FALSE, end |-> FALSE, digits |-> FALSE, neg |-> <<>>, segs |-> << <<"p","r","e","s","s">> >>, gaps |-> <<>>],
    [pre |-> FALSE, end |-> FALSE, digits |-> FALSE, neg |-> <<>>, segs |-> << <<"m","e","d","i","a">> >>, gaps |-> <<>>],
    [pre |-> FALSE, end |-> FALSE, digits |-> FALSE, neg |-> <<>>, segs |-> << <<"f","a","c","e","b","o","o","k",".","c","o","m">> >>, gaps |-> <<>>],
    [pre |-> FALSE, end |-> FALSE, digits |-> FALSE, neg |-> <<>>, segs |-> << <<"t","w","i","t","t","e","r",".","c","o","m">> >>, gaps |-> <<>>],
    [pre |-> FALSE, end |-> FALSE, digits |-> FALSE, neg |-> <<>>, segs |-> << <<"i","n","s","t","a","g","r","a","m",".","c","o","m">> >>, gaps |-> <<>>],
    [pre |-> FALSE, end |-> FALSE, digits |-> FALSE, neg |-> <<>>, segs |-> << <<"l","i","n","k","e","d","i","n",".","c","o","m">> >>, gaps |-> <<>>],
    [pre |-> FALSE, end |-> FALSE, digits |-> FALSE, neg |-> <<>>, segs |-> << <<"y","o","u","t","u","b","e",".","c","o","m">> >>, gaps |-> <<>>],
    [pre |-> FALSE, end |-> FALSE, digits |-> FALSE, neg |-> <<>>, segs |-> << <<"w","h","a","t","s","a","p","p">> >>, gaps |-> <<>>],
    [pre |-> FALSE, end |-> FALSE, digits |-> FALSE, neg |-> <<>>, segs |-> << <<"t","e","l","e","g","r","a","m">> >>, gaps |-> <<>>],
    [pre |-> FALSE, end |-> FALSE, digits |-> FALSE, neg |-> <<>>, segs |-> << <<"c","a","r","e","e","r">> >>, gaps |-> <<>>],
    [pre |-> FALSE, end |-> FALSE, digits |-> FALSE, neg |-> <<>>, segs |-> << <<"j","o","b">> >>, gaps |-> <<>>],
    [pre |-> FALSE, end |-> FALSE, digits |-> FALSE, neg |-> <<>>, segs |-> << <<"i","n","v","e","s","t","o","r">> >>, gaps |-> <<>>],
    [pre |-> FALSE, end |-> FALSE, digits |-> FALSE, neg |-> <<>>, segs |-> << <<"c","s","r">> >>, gaps |-> <<>>],
    [pre |-> FALSE, end |-> FALSE, digits |-> FALSE, neg |-> <<>>, segs |-> << <<"s","u","s","t","a","i","n","a","b","i","l","i","t","y">> >>, gaps |-> <<>>],
    [pre |-> FALSE, end |-> FALSE, digits |-> FALSE, neg |-> <<"c","r","e","d","i","t">>, segs |-> << <<"p","r","e","p","a","i","d">> >>, gaps |-> <<>>],
    [pre |-> FALSE, end |-> FALSE, digits |-> FALSE, neg |-> <<>>, segs |-> << <<"g","i","f","t">>, <<"c","a","r","d">> >>, gaps |-> <<"opt">>],
    [pre |-> FALSE, end |-> FALSE, digits |-> FALSE, neg |-> <<>>, segs |-> << <<"f","o","r","e","x">>, <<"c","a","r","d">> >>, gaps |-> <<"opt">>],
    [pre |-> FALSE, end |-> FALSE, digits |-> FALSE, neg |-> <<>>, segs |-> << <<"f","i","n","a","n","c","i","a","l">>, <<"p","l","a","n","n","i","n","g">> >>, gaps |-> <<"opt">>],
    [pre |-> FALSE, end |-> FALSE, digits |-> FALSE, neg |-> <<>>, segs |-> << <<"r","e","t","i","r","e","m","e","n","t">> >>, gaps |-> <<>>],
    [pre |-> FALSE, end |-> FALSE, digits |-> FALSE, neg |-> <<>>, segs |-> << <<"p","e","n","s","i","o","n">> >>, gaps |-> <<>>],
    [pre |-> FALSE, end |-> FALSE, digits |-> FALSE, neg |-> <<>>, segs |-> << <<"t","a","x">> >>, gaps |-> <<>>],
    [pre |-> FALSE, end |-> FALSE, digits |-> FALSE, neg |-> <<>>, segs |-> << <<"g","o","a","l">>, <<"p","l","a","n","n","i","n","g">> >>, gaps |-> <<"opt">>],
    [pre |-> FALSE, end |-> FALSE, digits |-> FALSE, neg |-> <<>>, segs |-> << <<"s","a","v","e">>, <<"m","o","n","e","y">> >>, gaps |-> <<"opt">>],
    [pre |-> FALSE, end |-> FALSE, digits |-> FALSE, neg |-> <<>>, segs |-> << <<"e","m","e","r","g","e","n","c","y">>, <<"f","u","n","d">> >>, gaps |-> <<"opt">>],
    [pre |-> FALSE, end |-> FALSE, digits |-> FALSE, neg |-> <<"c","a","r","d">>, segs |-> << <<"m","o","b","i","l","e">>, <<"a","p","p">> >>, gaps |-> <<"opt">>],
    [pre |-> FALSE, end |-> FALSE, digits |-> FALSE, neg |-> <<>>, segs |-> << <<"d","o","w","n","l","o","a","d">>, <<"a","p","p">> >>, gaps |-> <<"opt">>],
    [pre |-> FALSE, end |-> FALSE, digits |-> FALSE, neg |-> <<>>, segs |-> << <<"a","p","p">>, <<"s","t","o","r","e">> >>, gaps |-> <<"opt">>],
    [pre |-> FALSE, end |-> FALSE, digits |-> FALSE, neg |-> <<>>, segs |-> << <<"p","l","a","y">>, <<"s","t","o","r","e">> >>, gaps |-> <<"opt">>]
  >>

strictRelevantPatterns ==
  <<
    [pre |-> FALSE, end |-> FALSE, digits |-> FALSE, neg |-> <<>>, segs |-> << <<"c","r","e","d","i","t">>, <<"c","a","r","d">> >>, gaps |-> <<"opt">>],
    [pre |-> FALSE, end |-> FALSE, digits |-> FALSE, neg |-> <<>>, segs |-> << <<"p","i","x","e","l">> >>, gaps |-> <<>>],
    [pre |-> FALSE, end |-> FALSE, digits |-> FALSE, neg |-> <<>>, segs |-> << <<"c","a","r","d">>, <<"b","e","n","e","f","i","t">> >>, gaps |-> <<"opt">>],
    [pre |-> FALSE, end |-> FALSE, digits |-> FALSE, neg |-> <<>>, segs |-> << <<"c","a","r","d">>, <<"o","f","f","e","r">> >>, gaps |-> <<"opt">>],
    [pre |-> FALSE, end |-> FALSE, digits |-> FALSE, neg |-> <<>>, segs |-> << <<"c","a","r","d">>, <<"r","e","w","a","r","d">> >>, gaps |-> <<"opt">>],
    [pre |-> FALSE, end |-> FALSE, digits |-> FALSE, neg |-> <<>>, segs |-> << <<"c","a","r","d">>, <<"p","e","r","k">> >>, gaps |-> <<"opt">>],
    [pre |-> FALSE, end |-> FALSE, digits |-> FALSE, neg |-> <<>>, segs |-> << <<"c","a","r","d">>, <<"f","e","a","t","u","r","e">> >>, gaps |-> <<"opt">>],
    [pre |-> FALSE, end |-> FALSE, digits |-> FALSE, neg |-> <<>>, segs |-> << <<"c","a","r","d">>, <<"a","d","v","a","n","t","a","g","e">> >>, gaps |-> <<"opt">>],
    [pre |-> FALSE, end |-> FALSE, digits |-> FALSE, neg |-> <<>>, segs |-> << <<"c","a","r","d","h","o","l","d","e","r">> >>, gaps |-> <<>>],
    [pre |-> FALSE, end |-> FALSE, digits |-> FALSE, neg |-> <<>>, segs |-> << <<"c","a","s","h","b","a","c","k">> >>, gaps |-> <<>>],
    [pre |-> FALSE, end |-> FALSE, digits |-> FALSE, neg |-> <<>>, segs |-> << <<"c","a","s","h">>, <<"b","a","c","k">> >>, gaps |-> <<"opt">>],
    [pre |-> FALSE, end |-> FALSE, digits |-> FALSE, neg |-> <<>>, segs |-> << <<"r","e","w","a","r","d">>, <<"p","o","i","n","t">> >>, gaps |-> <<"opt">>],
    [pre |-> FALSE, end |-> FALSE, digits |-> FALSE, neg |-> <<>>, segs |-> << <<"r","e","d","e","e","m">> >>, gaps |-> <<>>],
    [pre |-> FALSE, end |-> FALSE, digits |-> FALSE, neg |-> <<>>, segs |-> << <<"e","a","r","n">>, <<"p","o","i","n","t">> >>, gaps |-> <<"opt">>],
    [pre |-> FALSE, end |-> FALSE, digits |-> FALSE, neg |-> <<>>, segs |-> << <<"l","o","y","a","l","t","y">> >>, gaps |-> <<>>],
    [pre |-> FALSE, end |-> FALSE, digits |-> FALSE, neg |-> <<>>, segs |-> << <<"m","i","l","e","s","t","o","n","e">> >>, gaps |-> <<>>],
    [pre |-> FALSE, end |-> FALSE, digits |-> FALSE, neg |-> <<>>, segs |-> << <<"a","c","c","e","l","e","r","a","t","e","d">> >>, gaps |-> <<>>],
    [pre |-> FALSE, end |-> FALSE, digits |-> FALSE, neg |-> <<>>, segs |-> << <<"b","o","n","u","s">>, <<"p","o","i","n","t">> >>, gaps |-> <<"opt">>],
    [pre |-> FALSE, end |-> FALSE, digits |-> FALSE, neg |-> <<>>, segs |-> << <<"o","f","f","e","r">> >>, gaps |-> <<>>],
    [pre |-> FALSE, end |-> FALSE, digits |-> FALSE, neg |-> <<>>, segs |-> << <<"d","e","a","l">> >>, gaps |-> <<>>],
    [pre |-> FALSE, end |-> FALSE, digits |-> FALSE, neg |-> <<>>, segs |-> << <<"d","i","s","c","o","u","n","t">> >>, gaps |-> <<>>],
    [pre |-> FALSE, end |-> FALSE, digits |-> FALSE, neg |-> <<>>, segs |-> << <<"s","a","v","i","n","g">> >>, gaps |-> <<>>],
    [pre |-> FALSE, end |-> FALSE, digits |-> FALSE, neg |-> <<>>, segs |-> << <<"p","r","o","m","o">> >>, gaps |-> <<>>],
    [pre |-> FALSE, end |-> FALSE, digits |-> FALSE, neg |-> <<>>, segs |-> << <<"c","a","m","p","a","i","g","n">> >>, gaps |-> <<>>],
    [pre |-> FALSE, end |-> FALSE, digits |-> FALSE, neg |-> <<>>, segs |-> << <<"f","l","a","t">>, <<"%">> >>, gaps |-> <<"star">>],
    [pre |-> FALSE, end |-> FALSE, digits |-> TRUE, neg |-> <<>>, segs |-> << <<"%">>, <<"o","f","f">> >>, gaps |-> <<"star">>],
    [pre |-> FALSE, end |-> FALSE, digits |-> TRUE, neg |-> <<>>, segs |-> << <<"%">>, <<"c","a","s","h","b","a","c","k">> >>, gaps |-> <<"star">>],
    [pre |-> FALSE, end |-> FALSE, digits |-> TRUE, neg |-> <<>>, segs |-> << <<"x">>, <<"p","o","i","n","t">> >>, gaps |-> <<"star">>],
    [pre |-> FALSE, end |-> FALSE, digits |-> FALSE, neg |-> <<>>, segs |-> << <<"p","a","r","t","n","e","r">> >>, gaps |-> <<>>],
    [pre |-> FALSE, end |-> FALSE, digits |-> FALSE, neg |-> <<>>, segs |-> << <<"m","e","r","c","h","a","n","t">> >>, gaps |-> <<>>],
    [pre |-> FALSE, end |-> FALSE, digits |-> FALSE, neg |-> <<>>, segs |-> << <<"s","m","a","r","t","b","u","y">> >>, gaps |-> <<>>],
    [pre |-> FALSE, end |-> FALSE, digits |-> FALSE, neg |-> <<>>, segs |-> << <<"s","m","a","r","t">>, <<"b","u","y">> >>, gaps |-> <<"opt">>],
    [pre |-> FALSE, end |-> FALSE, digits |-> FALSE, neg |-> <<>>, segs |-> << <<"d","i","n","i","n","g">> >>, gaps |-> <<>>],
    [pre |-> FALSE, end |-> FALSE, digits |-> FALSE, neg |-> <<>>, segs |-> << <<"r","e","s","t","a","u","r","a","n","t">> >>, gaps |-> <<>>],
    [pre |-> FALSE, end |-> FALSE, digits |-> FALSE, neg |-> <<>>, segs |-> << <<"f","o","o","d">> >>, gaps |-> <<>>],
    [pre |-> FALSE, end |-> FALSE, digits |-> FALSE, neg |-> <<>>, segs |-> << <<"t","r","a","v","e","l">> >>, gaps |-> <<>>],
    [pre |-> FALSE, end |-> FALSE, digits |-> FALSE, neg |-> <<>>, segs |-> << <<"h","o","t","e","l">> >>, gaps |-> <<>>],
    [pre |-> FALSE, end |-> FALSE, digits |-> FALSE, neg |-> <<>>, segs |-> << <<"f","l","i","g","h","t">> >>, gaps |-> <<>>],
    [pre |-> FALSE, end |-> FALSE, digits |-> FALSE, neg |-> <<>>, segs |-> << <<"s","h","o","p","p","i","n","g">> >>, gaps |-> <<>>],
    [pre |-> FALSE, end |-> FALSE, digits |-> FALSE, neg |-> <<>>, segs |-> << <<"f","a","s","h","i","o","n">> >>, gaps |-> <<>>],
    [pre |-> FALSE, end |-> FALSE, digits |-> FALSE, neg |-> <<>>, segs |-> << <<"g","r","o","c","e","r","y">> >>, gaps |-> <<>>],
    [pre |-> FALSE, end |-> FALSE, digits |-> FALSE, neg |-> <<>>, segs |-> << <<"f","u","e","l">> >>, gaps |-> <<>>],
    [pre |-> FALSE, end |-> FALSE, digits |-> FALSE, neg |-> <<>>, segs |-> << <<"p","e","t","r","o","l">> >>, gaps |-> <<>>],
    [pre |-> FALSE, end |-> FALSE, digits |-> FALSE, neg |-> <<>>, segs |-> << <<"g","a","s">>, <<"s","t","a","t","i","o","n">> >>, gaps |-> <<"opt">>],
    [pre |-> FALSE, end |-> FALSE, digits |-> FALSE, neg |-> <<>>, segs |-> << <<"e","n","t","e","r","t","a","i","n","m","e","n","t">> >>, gaps |-> <<>>],
    [pre |-> FALSE, end |-> FALSE, digits |-> FALSE, neg |-> <<>>, segs |-> << <<"m","o","v","i","e">> >>, gaps |-> <<>>],
    [pre |-> FALSE, end |-> FALSE, digits |-> FALSE, neg |-> <<>>, segs |-> << <<"b","o","o","k","m","y","s","h","o","w">> >>, gaps |-> <<>>],
    [pre |-> FALSE, end |-> FALSE, digits |-> FALSE, neg |-> <<>>, segs |-> << <<"z","o","m","a","t","o">> >>, gaps |-> <<>>],
    [pre |-> FALSE, end |-> FALSE, digits |-> FALSE, neg |-> <<>>, segs |-> << <<"s","w","i","g","g","y">> >>, gaps |-> <<>>],
    [pre |-> FALSE, end |-> FALSE, digits |-> FALSE, neg |-> <<>>, segs |-> << <<"m","a","k","e","m","y","t","r","i","p">> >>, gaps |-> <<>>],
    [pre |-> FALSE, end |-> FALSE, digits |-> FALSE, neg |-> <<>>, segs |-> << <<"u","b","e","r">> >>, gaps |-> <<>>],
    [pre |-> FALSE, end |-> FALSE, digits |-> FALSE, neg |-> <<>>, segs |-> << <<"o","l","a">> >>, gaps |-> <<>>],
    [pre |-> FALSE, end |-> FALSE, digits |-> FALSE, neg |-> <<>>, segs |-> << <<"a","m","a","z","o","n">> >>, gaps |-> <<>>],
    [pre |-> FALSE, end |-> FALSE, digits |-> FALSE, neg |-> <<>>, segs |-> << <<"f","l","i","p","k","a","r","t">> >>, gaps |-> <<>>],
    [pre |-> FALSE, end |-> FALSE, digits |-> FALSE, neg |-> <<>>, segs |-> << <<"m","y","n","t","r","a">> >>, gaps |-> <<>>],
    [pre |-> FALSE, end |-> FALSE, digits |-> FALSE, neg |-> <<>>, segs |-> << <<"n","y","k","a","a">> >>, gaps |-> <<>>],
    [pre |-> FALSE, end |-> FALSE, digits |-> FALSE, neg |-> <<>>, segs |-> << <<"c","r","o","m","a">> >>, gaps |-> <<>>],
    [pre |-> FALSE, end |-> FALSE, digits |-> FALSE, neg |-> <<>>, segs |-> << <<"r","e","l","i","a","n","c","e">> >>, gaps |-> <<>>],
    [pre |-> FALSE, end |-> FALSE, digits |-> FALSE, neg |-> <<>>, segs |-> << <<"p","a","y","z","a","p","p">> >>, gaps |-> <<>>],
    [pre |-> FALSE, end |-> FALSE, digits |-> FALSE, neg |-> <<>>, segs |-> << <<"p","a","y">>, <<"z","a","p","p">> >>, gaps |-> <<"opt">>],
    [pre |-> FALSE, end |-> FALSE, digits |-> FALSE, neg |-> <<>>, segs |-> << <<"m","y">>, <<"c","a","r","d">> >>, gaps |-> <<"opt">>],
    [pre |-> FALSE, end |-> FALSE, digits |-> FALSE, neg |-> <<>>, segs |-> << <<"c","a","r","d">>, <<"c","o","n","t","r","o","l">> >>, gaps |-> <<"opt">>],
    [pre |-> FALSE, end |-> FALSE, digits |-> FALSE, neg |-> <<>>, segs |-> << <<"e","m","i">> >>, gaps |-> <<>>],
    [pre |-> FALSE, end |-> FALSE, digits |-> FALSE, neg |-> <<>>, segs |-> << <<"i","n","s","t","a","l","l","m","e","n","t">> >>, gaps |-> <<>>],
    [pre |-> FALSE, end |-> FALSE, digits |-> FALSE, neg |-> <<>>, segs |-> << <<"p","a","y">>, <<"i","n">>, <<"p","a","r","t">> >>, gaps |-> <<"opt", "opt">>],
    [pre |-> FALSE, end |-> FALSE, digits |-> FALSE, neg |-> <<>>, segs |-> << <<"c","o","n","v","e","r","t">>, <<"t","o">>, <<"e","m","i">> >>, gaps |-> <<"opt", "opt">>],
    [pre |-> FALSE, end |-> FALSE, digits |-> FALSE, neg |-> <<>>, segs |-> << <<"c","o","n","t","a","c","t","l","e","s","s">> >>, gaps |-> <<>>],
    [pre |-> FALSE, end |-> FALSE, digits |-> FALSE, neg |-> <<>>, segs |-> << <<"t","a","p">>, <<"p","a","y">> >>, gaps |-> <<"opt">>],
    [pre |-> FALSE, end |-> FALSE, digits |-> FALSE, neg |-> <<>>, segs |-> << <<"s","c","a","n">>, <<"p","a","y">> >>, gaps |-> <<"opt">>],
    [pre |-> FALSE, end |-> FALSE, digits |-> FALSE, neg |-> <<>>, segs |-> << <<"u","p","i">>, <<"c","a","r","d">> >>, gaps |-> <<"star">>],
    [pre |-> FALSE, end |-> FALSE, digits |-> FALSE, neg |-> <<>>, segs |-> << <<"t","e","r","m","s">>, <<"c","a","r","d">> >>, gaps |-> <<"star">>],
    [pre |-> FALSE, end |-> FALSE, digits |-> FALSE, neg |-> <<>>, segs |-> << <<"c","o","n","d","i","t","i","o","n">>, <<"c","a","r","d">> >>, gaps |-> <<"star">>],
    [pre |-> FALSE, end |-> FALSE, digits |-> FALSE, neg |-> <<>>, segs |-> << <<"f","e","e">>, <<"c","a","r","d">> >>, gaps |-> <<"star">>],
    [pre |-> FALSE, end |-> FALSE, digits |-> FALSE, neg |-> <<>>, segs |-> << <<"c","h","a","r","g","e">>, <<"c","a","r","d">> >>, gaps |-> <<"star">>],
    [pre |-> FALSE, end |-> FALSE, digits |-> FALSE, neg |-> <<>>, segs |-> << <<"e","l","i","g","i","b","i","l","i","t","y">>, <<"c","a","r","d">> >>, gaps |-> <<"star">>],
    [pre |-> FALSE, end |-> FALSE, digits |-> FALSE, neg |-> <<>>, segs |-> << <<"a","p","p","l","y">>, <<"c","a","r","d">> >>, gaps |-> <<"star">>],
    [pre |-> FALSE, end |-> FALSE, digits |-> FALSE, neg |-> <<>>, segs |-> << <<".","p","d","f">> >>, gaps |-> <<>>],
    [pre |-> FALSE, end |-> FALSE, digits |-> FALSE, neg |-> <<>>, segs |-> << <<"d","o","c","u","m","e","n","t">>, <<"c","a","r","d">> >>, gaps |-> <<"star">>],
    [pre |-> FALSE, end |-> FALSE, digits |-> FALSE, neg |-> <<>>, segs |-> << <<"b","r","o","c","h","u","r","e">>, <<"c","a","r","d">> >>, gaps |-> <<"star">>],
    [pre |-> FALSE, end |-> FALSE, digits |-> FALSE, neg |-> <<>>, segs |-> << <<"g","u","i","d","e">>, <<"c","a","r","d">> >>, gaps |-> <<"star">>],
    [pre |-> FALSE, end |-> FALSE, digits |-> FALSE, neg |-> <<>>, segs |-> << <<"c","l","i","c","k">>, <<"h","e","r","e">>, <<"c","a","r","d">> >>, gaps |-> <<"star", "star">>],
    [pre |-> FALSE, end |-> FALSE, digits |-> FALSE, neg |-> <<>>, segs |-> << <<"k","n","o","w">>, <<"m","o","r","e">>, <<"c","a","r","d">> >>, gaps |-> <<"star", "star">>],
    [pre |-> FALSE, end |-> FALSE, digits |-> FALSE, neg |-> <<>>, segs |-> << <<"l","e","a","r","n">>, <<"m","o","r","e">>, <<"c","a","r","d">> >>, gaps |-> <<"star", "star">>],
    [pre |-> FALSE, end |-> FALSE, digits |-> FALSE, neg |-> <<>>, segs |-> << <<"d","e","t","a","i","l">>, <<"c","a","r","d">> >>, gaps |-> <<"star">>],
    [pre |-> FALSE, end |-> FALSE, digits |-> FALSE, neg |-> <<>>, segs |-> << <<"f","e","a","t","u","r","e">>, <<"c","a","r","d">> >>, gaps |-> <<"star">>],
    [pre |-> FALSE, end |-> FALSE, digits |-> FALSE, neg |-> <<>>, segs |-> << <<"b","e","n","e","f","i","t">>, <<"c","a","r","d">> >>, gaps |-> <<"star">>]
  >>

\* isRelevantLink: knownCardDomains
knownCardDomains ==
  << <<"h","d","f","c","b","a","n","k",".","c","o","m">>,
     <<"s","m","a","r","t","b","u","y",".","h","d","f","c","b","a","n","k",".","c","o","m">>,
     <<"o","f","f","e","r","s",".","h","d","f","c","b","a","n","k",".","c","o","m">>,
     <<"m","y","c","a","r","d","s",".","h","d","f","c","b","a","n","k",".","c","o","m">>,
     <<"p","i","x","e","l",".","h","d","f","c","b","a","n","k",".","c","o","m">> >>

RECURSIVE matchFrom(_, _, _, _)
\* the segments k.. of pattern p match s with segment k starting at position i
matchFrom(s, p, k, i) ==
    LET seg == p.segs[k]
        e == i + Len(seg)
    IN  /\ e <= Len(s) + 1
        /\ SubSeq(s, i, e - 1) = seg
        /\ IF k = Len(p.segs)
           THEN /\ (p.end => e = Len(s) + 1)
                /\ (p.neg # <<>> => ~includes(SubSeq(s, e, Len(s)), p.neg))
           ELSE IF p.gaps[k] = "opt"
           THEN \E j \in {e, e + 1} : matchFrom(s, p, k + 1, j)
           ELSE \E j \in e..(Len(s) + 1) : matchFrom(s, p, k + 1, j)

\* RegExp.prototype.test
test(p, s) ==
    \E i \in (IF p.pre THEN {1} ELSE 1..(Len(s) + 1)) :
        /\ (p.digits => i > 1 /\ s[i - 1] \in Digits)
        /\ matchFrom(s, p, 1, i)

\* patterns.some(pattern => pattern.test(textLower) || pattern.test(hrefLower))
somePatternTests(patterns, textLower, hrefLower) ==
    \E n \in 1..Len(patterns) : test(patterns[n], textLower) \/ test(patterns[n], hrefLower)

\* the host of an http(s) URL: what stands before the first / ? # or :
hostOf(rest) ==
    LET stops == {i \in 1..Len(rest) : rest[i] \in {"/", "?", "#", ":"}}
        n == IF stops = {} THEN Len(rest) + 1
             ELSE CHOOSE i \in stops : \A j \in stops : i <= j
    IN  SubSeq(rest, 1, n - 1)

\* LinkProcessor.getDomain: new URL(url).hostname, null when the URL does not
\* parse (a relative href has no scheme)
getDomain(u) ==
    LET l == toLowerCase(u)
    IN  IF startsWith(l, Lit.httpsScheme) THEN Str(hostOf(SubSeq(l, Len(Lit.httpsScheme) + 1, Len(l))))
        ELSE IF startsWith(l, Lit.httpScheme) THEN Str(hostOf(SubSeq(l, Len(Lit.httpScheme) + 1, Len(l))))
        ELSE Null

\* isRelevantLink: pdfIndicators.some(indicator => indicator)
relevantPdfIndicators(textLower, hrefLower) ==
    \/ includes(hrefLower, Lit.pdf)
    \/ includes(hrefLower, Lit.repositories)
    \/ includes(hrefLower, Lit.qpath)
    \/ includes(textLower, Lit.pdfword)
    \/ (includes(textLower, Lit.terms) /\ includes(textLower, Lit.condition))
    \/ (includes(textLower, Lit.clickhere)
        /\ (includes(textLower, Lit.terms) \/ includes(textLower, Lit.condition) \/ includes(textLower, Lit.faq)))
    \/ includes(textLower, Lit.detailedterms)
    \/ includes(textLower, Lit.tandc)
    \/ includes(textLower, Lit.tnc)

\* isRelevantLink: the domain policy of its last lines
domainPolicy(href, baseUrl) ==
    LET hrefLower == toLowerCase(href)
        sameDomain == getDomain(href) = getDomain(baseUrl)
        isPdf == includes(hrefLower, Lit.pdf) \/ includes(hrefLower, Lit.repositoriesword)
        isCardDomain == \E d \in 1..Len(knownCardDomains) : includes(hrefLower, knownCardDomains[d])
    IN  sameDomain \/ isPdf \/ isCardDomain

\* the relevance check with the irrelevant patterns consulted first
isRelevantLinkRejectFirst(text, href, baseUrl) ==
    LET textLower == toLowerCase(text)
        hrefLower == toLowerCase(href)
    IN  IF somePatternTests(irrelevantPatterns, textLower, hrefLower) THEN FALSE
        ELSE IF relevantPdfIndicators(textLower, hrefLower) THEN TRUE
        ELSE IF ~somePatternTests(strictRelevantPatterns, textLower, hrefLower) THEN FALSE
        ELSE domainPolicy(href, baseUrl)

\* the relevance check without the strict relevant patterns
isRelevantLinkDomainOnly(text, href, baseUrl) ==
    LET textLower == toLowerCase(text)
        hrefLower == toLowerCase(href)
    IN  IF relevantPdfIndicators(textLower, hrefLower) THEN TRUE
        ELSE IF somePatternTests(irrelevantPatterns, textLower, hrefLower) THEN FALSE
        ELSE domainPolicy(href, baseUrl)

\* LinkProcessor.isRelevantLink
isRelevantLink(text, href, baseUrl) ==
    LET textLower == toLowerCase(text)
        hrefLower == toLowerCase(href)
        isStrictlyRelevant == somePatternTests(strictRelevantPatterns, textLower, hrefLower)
    IN  IF relevantPdfIndicators(textLower, hrefLower) THEN TRUE
        ELSE IF somePatternTests(irrelevantPatterns, textLower, hrefLower) THEN FALSE
        ELSE IF ~isStrictlyRelevant THEN FALSE
        ELSE domainPolicy(href, baseUrl)

\* classifyLink: pdfIndicators.some(indicator => indicator)
classifyPdfIndicators(textLower, hrefLower) ==
    \/ includes(hrefLower, Lit.pdf)
    \/ includes(hrefLower, Lit.repositories)
    \/ includes(hrefLower, Lit.qpath)
    \/ includes(textLower, Lit.pdfword)
    \/ ((includes(textLower, Lit.clickhere) \/ includes(textLower, Lit.click))
        /\ (includes(textLower, Lit.terms) \/ includes(textLower, Lit.condition) \/ includes(textLower, Lit.faq)))
    \/ includes(textLower, Lit.detailedterms)
    \/ includes(textLower, Lit.tandc)
    \/ includes(textLower, Lit.tnc)

\* LinkProcessor.classifyLink
classifyLink(href, text) ==
    LET h == toLowerCase(href)
        t == toLowerCase(text)
    IN  IF classifyPdfIndicators(t, h) THEN "pdf"
        ELSE IF (includes(t, Lit.term) \/ includes(t, Lit.condition) \/ includes(t, Lit.faq))
                /\ (includes(t, Lit.card) \/ includes(h, Lit.card)) THEN "terms"
        ELSE IF (includes(t, Lit.offer) \/ includes(t, Lit.deal) \/ includes(t, Lit.promo))
                /\ (includes(t, Lit.card) \/ includes(h, Lit.card) \/ includes(h, Lit.smartbuy)) THEN "offers"
        ELSE IF (includes(t, Lit.reward) \/ includes(t, Lit.point) \/ includes(t, Lit.cashback)
                 \/ includes(t, Lit.benefit) \/ includes(t, Lit.perk))
                /\ (includes(t, Lit.card) \/ includes(h, Lit.card)) THEN "rewards"
        ELSE IF includes(t, Lit.partner) \/ includes(t, Lit.merchant) \/ includes(h, Lit.smartbuy)
                \/ includes(t, Lit.dining) \/ includes(t, Lit.travel) \/ includes(t, Lit.shopping)
             THEN "partnerships"
        ELSE IF includes(t, Lit.card)
                /\ (includes(t, Lit.feature) \/ includes(t, Lit.control) \/ includes(t, Lit.manage)
                    \/ includes(t, Lit.payzapp) \/ includes(t, Lit.emi)) THEN "card_features"
        ELSE "general"

\* anchors a rendered page can carry (the text and the href attribute)
Anchor ==
  [
    \* "Click here" -> /docs/TnC.PDF
    clickpdf |-> [text |-> <<"C","l","i","c","k"," ","h","e","r","e">>,
      href |-> <<"/","d","o","c","s","/","T","n","C",".","P","D","F">>],
    \* "Login" -> https://cdn.example.org/login.pdf
    loginpdf |-> [text |-> <<"L","o","g","i","n">>,
      href |-> <<"h","t","t","p","s",":","/","/","c","d","n",".","e","x","a","m","p","l","e",".","o","r","g","/","l","o","g","i","n",".","p","d","f">>],
    \* "Terms and Conditions" -> /legal
    termscond |-> [text |-> <<"T","e","r","m","s"," ","a","n","d"," ","C","o","n","d","i","t","i","o","n","s">>,
      href |-> <<"/","l","e","g","a","l">>],
    \* "Regalia offers" -> /personal/offers
    reloffers |-> [text |-> <<"R","e","g","a","l","i","a"," ","o","f","f","e","r","s">>,
      href |-> <<"/","p","e","r","s","o","n","a","l","/","o","f","f","e","r","s">>],
    \* "Card offers" -> https://www.hdfcbank.com/offers
    absoffers |-> [text |-> <<"C","a","r","d"," ","o","f","f","e","r","s">>,
      href |-> <<"h","t","t","p","s",":","/","/","w","w","w",".","h","d","f","c","b","a","n","k",".","c","o","m","/","o","f","f","e","r","s">>],
    \* "Dining deals" -> https://www.zomato.com/deals
    zomato |-> [text |-> <<"D","i","n","i","n","g"," ","d","e","a","l","s">>,
      href |-> <<"h","t","t","p","s",":","/","/","w","w","w",".","z","o","m","a","t","o",".","c","o","m","/","d","e","a","l","s">>],
    \* "Travel partners" -> https://www.hdfcbank.com/travel
    travel |-> [text |-> <<"T","r","a","v","e","l"," ","p","a","r","t","n","e","r","s">>,
      href |-> <<"h","t","t","p","s",":","/","/","w","w","w",".","h","d","f","c","b","a","n","k",".","c","o","m","/","t","r","a","v","e","l">>],
    \* "Careers" -> /careers
    careers |-> [text |-> <<"C","a","r","e","e","r","s">>,
      href |-> <<"/","c","a","r","e","e","r","s">>],
    \* "Overview" -> https://www.hdfcbank.com/about-us
    about |-> [text |-> <<"O","v","e","r","v","i","e","w">>,
      href |-> <<"h","t","t","p","s",":","/","/","w","w","w",".","h","d","f","c","b","a","n","k",".","c","o","m","/","a","b","o","u","t","-","u","s">>],
    \* "Reward points" -> https://hdfcbank.com.evil.io/rewards
    lookalike |-> [text |-> <<"R","e","w","a","r","d"," ","p","o","i","n","t","s">>,
      href |-> <<"h","t","t","p","s",":","/","/","h","d","f","c","b","a","n","k",".","c","o","m",".","e","v","i","l",".","i","o","/","r","e","w","a","r","d","s">>],
    \* "Cashback on fuel" -> https://www.axisbank.com/cashback
    axis |-> [text |-> <<"C","a","s","h","b","a","c","k"," ","o","n"," ","f","u","e","l">>,
      href |-> <<"h","t","t","p","s",":","/","/","w","w","w",".","a","x","i","s","b","a","n","k",".","c","o","m","/","c","a","s","h","b","a","c","k">>],
    \* "Lounge benefit card" -> https://www.hdfcbank.com/lounge
    lounge |-> [text |-> <<"L","o","u","n","g","e"," ","b","e","n","e","f","i","t"," ","c","a","r","d">>,
      href |-> <<"h","t","t","p","s",":","/","/","w","w","w",".","h","d","f","c","b","a","n","k",".","c","o","m","/","l","o","u","n","g","e">>],
    \* "Terms of card" -> https://www.hdfcbank.com/usage
    cardterms |-> [text |-> <<"T","e","r","m","s"," ","o","f"," ","c","a","r","d">>,
      href |-> <<"h","t","t","p","s",":","/","/","w","w","w",".","h","d","f","c","b","a","n","k",".","c","o","m","/","u","s","a","g","e">>],
    \* "Card controls" -> https://www.hdfcbank.com/manage
    controls |-> [text |-> <<"C","a","r","d"," ","c","o","n","t","r","o","l","s">>,
      href |-> <<"h","t","t","p","s",":","/","/","w","w","w",".","h","d","f","c","b","a","n","k",".","c","o","m","/","m","a","n","a","g","e">>],
    \* "Know more" -> https://www.hdfcbank.com/content/bbp/repositories/r?path=/a
    repo |-> [text |-> <<"K","n","o","w"," ","m","o","r","e">>,
      href |-> <<"h","t","t","p","s",":","/","/","w","w","w",".","h","d","f","c","b","a","n","k",".","c","o","m","/","c","o","n","t","e","n","t","/","b","b","p","/","r","e","p","o","s","i","t","o","r","i","e","s","/","r","?","p","a","t","h","=","/","a">>]
  ]

LinkInputs == <<Anchor.clickpdf, Anchor.loginpdf, Anchor.termscond, Anchor.reloffers, Anchor.absoffers, Anchor.zomato, Anchor.travel, Anchor.careers, Anchor.about, Anchor.lookalike, Anchor.axis, Anchor.lounge, Anchor.cardterms, Anchor.controls, Anchor.repo>>

\* the pages isRelevantLink is asked about
BaseUrls == {Url.hdfcbank, Url.axisbank}

\* window.location.origin of the page at u
originOf(u) ==
    (IF startsWith(toLowerCase(u), Lit.httpsScheme) THEN Lit.httpsScheme ELSE Lit.httpScheme)
        \o getDomain(u).v

\* extractPageContent: the fullUrl of an anchor, new URL(href, origin).href
\* unless the href starts with http
fullUrlOf(href, pageUrl) ==
    IF startsWith(href, Lit.http) THEN href
    ELSE IF href # <<>> /\ href[1] = "/" THEN originOf(pageUrl) \o href
    ELSE originOf(pageUrl) \o <<"/">> \o href

\* extractPageContent: the links of the page, the first anchor of each fullUrl
pageLinks(anchors, pageUrl) ==
    LET full == [i \in 1..Len(anchors) |->
                    [href |-> anchors[i].href, text |-> anchors[i].text,
                     fullUrl |-> fullUrlOf(anchors[i].href, pageUrl)]]
        first == {i \in 1..Len(full) : \A j \in 1..(i - 1) : full[j].fullUrl # full[i].fullUrl}
        pick[n \in 0..Len(full)] ==
            IF n = 0 THEN <<>>
            ELSE IF n \in first THEN Append(pick[n - 1], full[n]) ELSE pick[n - 1]
    IN  pick[Len(full)]

\* the anchors of the pages a crawl fetches
AnchorPool == {Anchor.clickpdf, Anchor.absoffers, Anchor.lookalike, Anchor.careers}

\* sequences of distinct anchors, at most MaxLinks long
AnchorSeqs ==
    UNION { { q \in [1..n -> AnchorPool] : \A i, j \in 1..n : i # j => q[i] # q[j] }
            : n \in 0..MaxLinks }

\* isRelevantLink and classifyLink on every anchor of the pool
relevantOf ==
    [i \in 1..Len(LinkInputs), b \in BaseUrls \cup {Url.web} |->
        isRelevantLink(LinkInputs[i].text, LinkInputs[i].href, b)]
typeOf == [i \in 1..Len(LinkInputs) |-> classifyLink(LinkInputs[i].href, LinkInputs[i].text)]
inputOf(link) ==
    CHOOSE i \in 1..Len(LinkInputs) :
        LinkInputs[i].text = link.text /\ LinkInputs[i].href = link.href

\* prioritizeLinks: the priority table
priority(type) ==
    CASE type = "pdf" -> 10
      [] type = "terms" -> 9
      [] type = "benefits" -> 8
      [] type = "offers" -> 8
      [] type = "rewards" -> 7
      [] type = "card_features" -> 6
      [] type = "partnerships" -> 5
      [] type = "general" -> 3
      [] OTHER -> 0

\* an insertion that puts x before the elements of its own priority
insertBeforeEquals(sorted, x) ==
    LET k == Cardinality({i \in 1..Len(sorted) : priority(sorted[i].type) > priority(x.type)})
    IN  SubSeq(sorted, 1, k) \o <<x>> \o SubSeq(sorted, k + 1, Len(sorted))

\* one step of a stable descending sort: x goes after every element whose
\* priority is at least its own
insertByPriority(sorted, x) ==
    LET k == Cardinality({i \in 1..Len(sorted) : priority(sorted[i].type) >= priority(x.type)})
    IN  SubSeq(sorted, 1, k) \o <<x>> \o SubSeq(sorted, k + 1, Len(sorted))

RECURSIVE prioritizeLinks(_)
\* LinkProcessor.prioritizeLinks: Array.prototype.sort is stable
prioritizeLinks(ls) ==
    IF ls = <<>> THEN <<>>
    ELSE insertByPriority(prioritizeLinks(SubSeq(ls, 1, Len(ls) - 1)), ls[Len(ls)])

\* LinkProcessor.extractLinks, the forEach: the relevant links among the first
\* k of the page, the first of each URL, classified
collectLinks(pageContentLinks, baseUrl, k) ==
    LET acc[n \in 0..k] ==
            IF n = 0 THEN <<>>
            ELSE LET link == pageContentLinks[n]
                     finalUrl == IF link.fullUrl # <<>> THEN link.fullUrl ELSE link.href
                 IN  IF /\ relevantOf[inputOf(link), baseUrl]
                        /\ \A j \in 1..Len(acc[n - 1]) : acc[n - 1][j].url # finalUrl
                     THEN Append(acc[n - 1], [url |-> finalUrl, type |-> typeOf[inputOf(link)]])
                     ELSE acc[n - 1]
    IN  acc[k]

\* LinkProcessor.extractLinks
extractLinks(content, baseUrl) ==
    prioritizeLinks(collectLinks(content.links, baseUrl, Len(content.links)))

\* What fetching one linked document can do: extractPDFContent never raises
\* (content is null on failure); extractWebContent returns success or not, or
\* raises when closing the browser in its catch fails.
LinkOutcomes == {"ok", "fail", "raise"}

----------------------------------------------------------------------------
(* Listing resolver: AIProcessor.postProcessAndValidateUrls and its helpers *)

\* a JavaScript number where a string was expected
Num == [t |-> "num"]

\* isValidCreditCard: excludePatterns
excludePatterns ==
    << <<"b","u","s","i","n","e","s","s">>,
       <<"c","o","r","p","o","r","a","t","e">>,
       <<"c","o","m","m","e","r","c","i","a","l">>,
       <<"e","n","t","e","r","p","r","i","s","e">>,
       <<"d","e","b","i","t">>,
       <<"p","r","e","p","a","i","d">>,
       <<"g","i","f","t","-","c","a","r","d">>,
       <<"f","o","r","e","x">>,
       <<"t","r","a","v","e","l","-","c","a","r","d">>,
       <<"s","a","l","a","r","y","-","a","c","c","o","u","n","t">>,
       <<"s","a","v","i","n","g","s","-","a","c","c","o","u","n","t">>,
       <<"l","o","a","n">>,
       <<"i","n","s","u","r","a","n","c","e">>,
       <<"m","u","t","u","a","l","-","f","u","n","d">>,
       <<"i","n","v","e","s","t","m","e","n","t">> >>

\* isValidCreditCard: includePatterns
includePatterns ==
    << <<"c","r","e","d","i","t","-","c","a","r","d">>,
       <<"c","r","e","d","i","t"," ","c","a","r","d">>,
       <<"c","r","e","d","i","t","c","a","r","d">>,
       <<"r","e","w","a","r","d","s">>,
       <<"c","a","s","h","b","a","c","k">>,
       <<"p","o","i","n","t","s">>,
       <<"p","l","a","t","i","n","u","m">>,
       <<"g","o","l","d">>,
       <<"p","r","e","m","i","u","m">>,
       <<"p","r","i","m","e">>,
       <<"e","l","i","t","e">> >>

\* pattern.replace(/\s+/g, '-'); the patterns hold single spaces only
replaceSpaces(p) == [i \in 1..Len(p) |-> IF p[i] = " " THEN "-" ELSE p[i]]

\* (card.description || '')
orEmpty(x) == IF Truthy(x) THEN x ELSE Str(<<>>)

\* AIProcessor.isValidCreditCard with the inclusion test ahead of the
\* exclusion test
isValidCreditCardIncludeFirst(card) ==
    IF ~Truthy(card.url) \/ ~Truthy(card.name) THEN "reject"
    ELSE IF card.url.t # "str" \/ card.name.t # "str" \/ orEmpty(card.description).t # "str"
    THEN "raise"
    ELSE
      LET u == toLowerCase(card.url.v)
          n == toLowerCase(card.name.v)
          d == toLowerCase(orEmpty(card.description).v)
      IN  IF \E i \in 1..Len(includePatterns) :
                \/ includes(u, replaceSpaces(includePatterns[i]))
                \/ includes(n, includePatterns[i])
                \/ includes(d, includePatterns[i])
          THEN "accept"
          ELSE "reject"

\* AIProcessor.isValidCreditCard: "accept" for true, "reject" for false,
\* "raise" when toLowerCase is called on a value that is not a string
isValidCreditCard(card) ==
    IF ~Truthy(card.url) \/ ~Truthy(card.name) THEN "reject"
    ELSE IF card.url.t # "str" \/ card.name.t # "str" \/ orEmpty(card.description).t # "str"
    THEN "raise"
    ELSE
      LET u == toLowerCase(card.url.v)
          n == toLowerCase(card.name.v)
          d == toLowerCase(orEmpty(card.description).v)
          shouldExclude ==
              \E i \in 1..Len(excludePatterns) :
                 \/ includes(u, excludePatterns[i])
                 \/ includes(n, excludePatterns[i])
                 \/ includes(d, excludePatterns[i])
          hasIncludePattern ==
              \E i \in 1..Len(includePatterns) :
                 \/ includes(u, replaceSpaces(includePatterns[i]))
                 \/ includes(n, includePatterns[i])
                 \/ includes(d, includePatterns[i])
      IN  IF shouldExclude THEN "reject"
          ELSE IF ~hasIncludePattern THEN "reject"
          ELSE "accept"

\* "https://b.in": protocol and host of the listing page
BaseOrigin == <<"h","t","t","p","s",":","/","/","b",".","i","n">>

\* AIProcessor.normalizeCardData: a root-relative URL is resolved against the
\* listing page
normalizeCardData(card) ==
    [card EXCEPT !.url = IF card.url.v # <<>> /\ card.url.v[1] = "/"
                         THEN Str(BaseOrigin \o card.url.v) ELSE card.url]

\* candidates the structuring model proposes
Cand ==
  [
    \* accepted: inclusion tokens in the name; root-relative URL
    regalia |-> [name |-> Str(<<"R","e","g","a","l","i","a"," ","G","o","l","d"," ","C","r","e","d","i","t"," ","C","a","r","d">>),
      url |-> Str(<<"/","c","a","r","d","s","/","r","e","g","a","l","i","a","-","g","o","l","d">>),
      description |-> Null],
    \* accepted: inclusion token credit-card in the URL only
    millennia |-> [name |-> Str(<<"M","i","l","l","e","n","n","i","a">>),
      url |-> Str(<<"h","t","t","p","s",":","/","/","b",".","i","n","/","m","i","l","l","e","n","n","i","a","-","c","r","e","d","i","t","-","c","a","r","d">>),
      description |-> Null],
    \* accepted: inclusion token in the description only, in capitals
    freedom |-> [name |-> Str(<<"F","r","e","e","d","o","m">>),
      url |-> Str(<<"h","t","t","p","s",":","/","/","b",".","i","n","/","f","r","e","e","d","o","m">>),
      description |-> Str(<<"5","x"," ","R","E","W","A","R","D","S"," ","o","n"," ","d","i","n","i","n","g">>)],
    \* exclusion token business next to inclusion token credit card
    business |-> [name |-> Str(<<"X","Y","Z"," ","B","u","s","i","n","e","s","s"," ","C","r","e","d","i","t"," ","C","a","r","d">>),
      url |-> Str(<<"h","t","t","p","s",":","/","/","b",".","i","n","/","b","u","s","i","n","e","s","s","-","c","a","r","d">>),
      description |-> Null],
    \* no inclusion token
    moneyback |-> [name |-> Str(<<"M","o","n","e","y","b","a","c","k">>),
      url |-> Str(<<"h","t","t","p","s",":","/","/","b",".","i","n","/","m","o","n","e","y","b","a","c","k">>),
      description |-> Null],
    \* no url
    nourl |-> [name |-> Str(<<"I","n","f","i","n","i","a"," ","P","l","a","t","i","n","u","m">>),
      url |-> Null,
      description |-> Null],
    \* empty name
    noname |-> [name |-> Str(<<>>),
      url |-> Str(<<"h","t","t","p","s",":","/","/","b",".","i","n","/","g","o","l","d","-","c","a","r","d">>),
      description |-> Null],
    \* exclusion token in the description only
    insured |-> [name |-> Str(<<"E","l","i","t","e"," ","C","a","r","d">>),
      url |-> Str(<<"h","t","t","p","s",":","/","/","b",".","i","n","/","e","l","i","t","e">>),
      description |-> Str(<<"F","r","e","e"," ","t","r","a","v","e","l"," ","i","n","s","u","r","a","n","c","e">>)],
    \* the name is a number
    numeric |-> [name |-> Num,
      url |-> Str(<<"h","t","t","p","s",":","/","/","b",".","i","n","/","c","r","e","d","i","t","-","c","a","r","d","/","7">>),
      description |-> Null]
  ]

\* the pool, in the order the model lists them
CandidatePool ==
    <<Cand.regalia, Cand.millennia, Cand.freedom, Cand.business, Cand.moneyback, Cand.nourl,
      Cand.noname, Cand.insured, Cand.numeric>>

\* candidate lists: at most MaxCards candidates, in pool order
CandidateLists ==
    LET idx == { q \in UNION {[1..n -> 1..Len(CandidatePool)] : n \in 0..MaxCards} :
                   \A i \in 1..(Len(q) - 1) : q[i] < q[i + 1] }
    IN  { [i \in 1..Len(q) |-> CandidatePool[q[i]]] : q \in idx }

\* What axios.head can do: a response with a status, or a failure with an
\* error code.  cause names what happened on the network; the code of a
\* timeout is ECONNABORTED when the request's own timer (timeout: 10000)
\* expires and ETIMEDOUT when the socket times out.
HeadOutcomes ==
    { [cause |-> "response", status |-> 200, code |-> "none"],
      [cause |-> "response", status |-> 301, code |-> "none"],
      [cause |-> "response", status |-> 404, code |-> "none"],
      [cause |-> "response", status |-> 500, code |-> "none"],
      [cause |-> "refused", status |-> 0, code |-> "ECONNREFUSED"],
      [cause |-> "dns", status |-> 0, code |-> "ENOTFOUND"],
      [cause |-> "timeout", status |-> 0, code |-> "ETIMEDOUT"],
      [cause |-> "timeout", status |-> 0, code |-> "ECONNABORTED"],
      [cause |-> "other", status |-> 0, code |-> "ECONNRESET"] }

\* validateStatus: status >= 200 && status < 400
validateStatus(status) == status >= 200 /\ status < 400

\* AIProcessor.validateUrlAccessibility: the catch classifies by
\* error.response first, then by error.code
validateUrlAccessibility(out) ==
    IF out.cause = "response" /\ validateStatus(out.status)
    THEN [valid |-> TRUE, statusCode |-> out.status, errorType |-> "none"]
    ELSE IF out.cause = "response"
    THEN [valid |-> FALSE, statusCode |-> out.status,
          errorType |-> IF out.status = 404 THEN "NOT_FOUND_404" ELSE "HTTP_ERROR"]
    ELSE [valid |-> FALSE, statusCode |-> 0,
          errorType |-> IF out.code = "ECONNREFUSED" THEN "CONNECTION_REFUSED"
                        ELSE IF out.code = "ENOTFOUND" THEN "DNS_ERROR"
                        ELSE IF out.code = "ETIMEDOUT" THEN "TIMEOUT"
                        ELSE "UNKNOWN"]

\* the rate cut off after two decimals instead of rounded
success_rateTruncated(valid, total) ==
    IF total > 0 THEN (100 * valid) \div total ELSE 0

\* Math.round((valid / total) * 100) / 100, in hundredths; 0 when total is 0
success_rate(valid, total) ==
    IF total > 0 THEN (200 * valid + total) \div (2 * total) ELSE 0

----------------------------------------------------------------------------
(* The single-card crawl *)

NoReport == [none |-> TRUE]
NoHead == [sent |-> FALSE]

\* no listing crawl in this behaviour
ListingOff ==
    /\ lpc = "off"
    /\ candidates = <<>>
    /\ ci = 1
    /\ validCards = <<>>
    /\ invalidUrls = <<>>
    /\ headLog = {}
    /\ lastHead = NoHead
    /\ listingData = NoReport
    /\ vi = 1
    /\ okCards = <<>>
    /\ failedCards = <<>>
    /\ cardResults = <<>>
    /\ report = NoReport

\* no stand-alone call of isDataComplete in this behaviour
CompleteOff ==
    /\ record = Null
    /\ verdict = "unchecked"
    /\ score = [t |-> "unscored"]

\* extractLinks has not been called
NoPage == [base |-> <<>>, anchors |-> <<>>]
NoRanking == [returned |-> FALSE, links |-> <<>>]
LinkOff ==
    /\ page = NoPage
    /\ judged = <<>>
    /\ ranked = NoRanking

\* cleanText has not been called
TextOff ==
    /\ raw = Null
    /\ cleaned = <<>>

\* the crawler is used as a library: there is no command-line process
CliOff == cli = [stage |-> "off", code |-> 0]

\* new AIProcessor(): both counters start at 0; no listing run is modelled
NoAi ==
    [stage |-> "off", overBudget |-> FALSE, nchunks |-> 0, ncards |-> 0,
     calls |-> <<>>, k |-> 0, chunkFailed |-> FALSE, found |-> FALSE, c |-> 0,
     listing |-> [in |-> 0, out |-> 0], card |-> [in |-> 0, out |-> 0],
     spent |-> [in |-> 0, out |-> 0], summary |-> [t |-> "none"]]

PureOff ==
    /\ CompleteOff
    /\ LinkOff
    /\ TextOff
    /\ CliOff
    /\ ai = NoAi

\* history of one call: the main fetch was unsuccessful; fetching a linked
\* page raised; the fetches and sleeps of processLinks in the order they
\* happened; what the model call did and how many calls were made; the record assembled in STEP-4;
\* saveResults raised; what the write of the error file did
NoHist ==
    [fetchFailed |-> FALSE, linkRaised |-> FALSE, linkEvents |-> <<>>, model |-> "none",
     modelCalls |-> 0, assembled |-> Null, saveFailed |-> FALSE, errWrite |-> "none"]

\* no crawlCardBenefits call is made
CrawlOff ==
    /\ pc = "off"
    /\ crawls = 0
    /\ url = <<>>
    /\ retryCount = 0
    /\ nav = NoNav
    /\ fetchLog = <<>>
    /\ mainContent = NoContent
    /\ links = <<>>
    /\ li = 1
    /\ processedLinks = <<>>
    /\ failedLinks = <<>>
    /\ processedUrls = {}
    /\ maxLinks = 0
    /\ result = NoResult
    /\ filesWritten = {}
    /\ hist = NoHist

Init ==
    /\ pc = "idle"
    /\ crawls = 0
    /\ url = <<>>
    /\ retryCount = 0
    /\ nav = NoNav
    /\ fetchLog = <<>>
    /\ mainContent = NoContent
    /\ links = <<>>
    /\ li = 1
    /\ processedLinks = <<>>
    /\ failedLinks = <<>>
    /\ processedUrls = {}
    /\ maxLinks \in {0, 1}
    /\ result = NoResult
    /\ filesWritten = {}
    /\ hist = NoHist
    /\ ListingOff
    /\ PureOff

\* crawlCardBenefits(url) is called
StartCrawl(u) ==
    /\ pc = "idle"
    /\ crawls < MaxCrawls
    /\ pc' = "fetch"
    /\ crawls' = crawls + 1
    /\ url' = u
    /\ retryCount' = 0
    /\ UNCHANGED <<nav, fetchLog, mainContent, links, li, processedLinks, failedLinks,
                   processedUrls, result, filesWritten, hist>>
    /\ UNCHANGED <<maxLinks, listVars, pureVars>>

\* extractFromUrl -> extractPdfContent: one iteration of the while loop
PdfAttempt ==
    /\ pc = "fetch"
    /\ isPdfUrl(url)
    /\ \E outs \in [1..NumUrlsToTry(url) -> PdfOutcomes], textLength \in {0, 150} :
         LET ok == pdfAttemptOk(outs)
             r == extractRetry(retryCount, ok, pdfContentOk(Title.page, textLength),
                               pdfContentFailed("All PDF extraction attempts failed"))
         IN  /\ retryCount' = r.retryCount
             /\ fetchLog' = Append(fetchLog, ok)
             /\ mainContent' = loopExit(r).content
             /\ pc' = loopExit(r).pc
    /\ UNCHANGED <<crawls, url, nav, links, li, processedLinks, failedLinks,
                   processedUrls, result, filesWritten, hist>>
    /\ UNCHANGED <<maxLinks, listVars, pureVars>>

\* extractWebContent, the end of one iteration of the while loop: the try
\* returned the page content, or the catch counted a failed attempt
webAttemptEnds(ok, good, err, navEnd) ==
    LET r == extractRetry(retryCount, ok, good, webContentFailed(err))
    IN  /\ retryCount' = r.retryCount
        /\ fetchLog' = Append(fetchLog, ok)
        /\ mainContent' = loopExit(r).content
        /\ pc' = loopExit(r).pc
        /\ nav' = navEnd

\* extractFromUrl -> extractWebContent: an iteration of the while loop starts;
\* puppeteer.launch and the page setup succeed or raise into the catch
WebLaunch ==
    /\ pc = "fetch"
    /\ ~isPdfUrl(url)
    /\ nav.i = 0 \/ nav.ended # "no"
    /\ \E launchOk \in BOOLEAN :
         IF launchOk
         THEN /\ nav' = [NoNav EXCEPT !.i = 1]
              /\ UNCHANGED <<pc, retryCount, fetchLog, mainContent>>
         ELSE webAttemptEnds(FALSE, NoContent, "launch failed", NoNav)
    /\ UNCHANGED <<crawls, url, links, li, processedLinks, failedLinks,
                   processedUrls, result, filesWritten, hist>>
    /\ UNCHANGED <<maxLinks, listVars, pureVars>>

\* extractWebContent -> navigateWithFallbacks: one strategy is tried.  When it
\* returns content, browser.close() inside the try still has to succeed.
WebNavigate ==
    /\ pc = "fetch"
    /\ nav.i >= 1
    /\ nav.ended = "no"
    /\ \E out \in StrategyOutcomes :
         LET n == navigateWithFallbacks(nav.i, nav.lastError, out)
             after(ended) == [i |-> n.i, lastError |-> n.lastError, out |-> out, ended |-> ended]
         IN  IF n.returned
             THEN \E closeOk \in BOOLEAN, title \in PageTitles, anchors \in AnchorSeqs :
                    /\ (~closeOk => title = Title.none /\ anchors = <<>>)
                    /\ webAttemptEnds(closeOk, webContentOk(title, pageLinks(anchors, url)),
                                      "close failed", after("returned"))
             ELSE IF n.threw
             THEN webAttemptEnds(FALSE, NoContent, n.lastError, after("threw"))
             ELSE /\ nav' = after("no")
                  /\ UNCHANGED <<pc, retryCount, fetchLog, mainContent>>
    /\ UNCHANGED <<crawls, url, links, li, processedLinks, failedLinks,
                   processedUrls, result, filesWritten, hist>>
    /\ UNCHANGED <<maxLinks, listVars, pureVars>>

\* crawlCardBenefits: !mainContent.success raises into the catch, which
\* builds and writes the error record.  (Reading .success of a missing value
\* raises into the same catch.)
FetchFailed ==
    /\ pc = "fetched"
    /\ (mainContent.kind = "undefined" \/ ~mainContent.success)
    /\ \E we \in BOOLEAN :
         LET e == createErrorResult("Failed to extract main content", we)
         IN  /\ result' = e.value
             /\ filesWritten' = e.files
             /\ hist' = [hist EXCEPT !.fetchFailed = TRUE,
                                     !.errWrite = IF we THEN "ok" ELSE "failed"]
    /\ pc' = "done"
    /\ retryCount' = 0
    /\ fetchLog' = <<>>
    /\ nav' = NoNav
    /\ UNCHANGED <<crawls, url, mainContent, links, li,
                   processedLinks, failedLinks, processedUrls>>
    /\ UNCHANGED <<maxLinks, listVars, pureVars>>

\* crawlCardBenefits -> processPdfDocument: the main document is a PDF.
\* processContent, then saveResults whatever the completeness check said;
\* a raise goes to processPdfDocument's own catch.
ProcessPdf ==
    /\ pc = "fetched"
    /\ mainContent.kind = "content"
    /\ mainContent.success
    /\ mainContent.contentType = "pdf"
    /\ \E mo \in ModelOutcomes, w1, w2, we \in BOOLEAN,
          \* the prompt lets the model add fields of its own to the standard
          \* format: here a title and a content object
          parsed \in ModelRecords \cup
                     {CompleteData @@ [title |-> Str(Title.page),
                                       content |-> [t |-> "obj", textLength |-> 150]]} :
         /\ (mo # "ok" => parsed = CompleteData)
         /\ LET standardResult == processContent(mo, parsed, mainContent)
                p == pdfSave(standardResult, w1, w2, we)
            IN  /\ result' = p.value
                /\ filesWritten' = p.files
                /\ hist' = [hist EXCEPT !.model = mo, !.modelCalls = @ + modelCalls(mo),
                              !.assembled = standardResult, !.saveFailed = p.saveFailed,
                              !.errWrite = IF ~p.saveFailed THEN "none"
                                           ELSE IF we THEN "ok" ELSE "failed"]
    /\ pc' = "done"
    /\ retryCount' = 0
    /\ fetchLog' = <<>>
    /\ UNCHANGED <<crawls, url, nav, mainContent, links, li,
                   processedLinks, failedLinks, processedUrls>>
    /\ UNCHANGED <<maxLinks, listVars, pureVars>>

\* crawlCardBenefits STEP-2, first half: extractLinks(mainContent, url)
EnterLinks ==
    /\ pc = "fetched"
    /\ mainContent.kind = "content"
    /\ mainContent.success
    /\ mainContent.contentType = "web"
    /\ links' = extractLinks(mainContent, url)
    /\ li' = 1
    /\ processedLinks' = <<>>
    /\ failedLinks' = <<>>
    /\ pc' = "links"
    /\ retryCount' = 0
    /\ fetchLog' = <<>>
    /\ nav' = NoNav
    /\ UNCHANGED <<crawls, url, mainContent, processedUrls,
                   result, filesWritten, hist>>
    /\ UNCHANGED <<maxLinks, listVars, pureVars>>

\* processLinks: one iteration of the for loop
ProcessLink ==
    /\ pc = "links"
    /\ li <= Len(links)
    /\ LET link == links[li]
           \* the fetch, then Utils.sleep(delayBetweenRequests) at the end of the try
           fetchThenSleep == hist.linkEvents \o <<"fetch", "sleep">> IN
         IF link.url \in processedUrls
         THEN UNCHANGED <<processedLinks, failedLinks, processedUrls, hist>>
         ELSE /\ processedUrls' = processedUrls \cup {link.url}
              /\ \E out \in LinkOutcomes :
                   IF link.type = "pdf"
                   THEN /\ out # "raise"
                        /\ processedLinks' = Append(processedLinks,
                             [url |-> link.url, type |-> link.type, hasContent |-> (out = "ok")])
                        /\ hist' = [hist EXCEPT !.linkEvents = fetchThenSleep]
                        /\ UNCHANGED failedLinks
                   ELSE IF out = "ok"
                   THEN /\ processedLinks' = Append(processedLinks,
                             [url |-> link.url, type |-> link.type, hasContent |-> TRUE])
                        /\ hist' = [hist EXCEPT !.linkEvents = fetchThenSleep]
                        /\ UNCHANGED failedLinks
                   ELSE /\ failedLinks' = Append(failedLinks, [url |-> link.url, type |-> link.type])
                        /\ hist' = [hist EXCEPT
                             !.linkRaised = @ \/ (out = "raise"),
                             \* the catch skips the sleep of the try
                             !.linkEvents = IF out = "raise"
                                            THEN Append(hist.linkEvents, "fetch")
                                            ELSE fetchThenSleep]
                        /\ UNCHANGED processedLinks
    /\ li' = li + 1
    /\ UNCHANGED <<pc, crawls, url, retryCount, nav, fetchLog, mainContent, links,
                   result, filesWritten>>
    /\ UNCHANGED <<maxLinks, listVars, pureVars>>

\* crawlCardBenefits STEP-3 to STEP-6 once processLinks has returned:
\* processContent, assemble, validate, save; a raise goes to the catch.
AiProcessWeb ==
    /\ pc = "links"
    /\ li > Len(links)
    /\ \E mo \in ModelOutcomes, parsed \in ModelRecords, w1, w2, we \in BOOLEAN :
         /\ (mo # "ok" => parsed = CompleteData)
         /\ LET standardResult == processContent(mo, parsed, mainContent)
                v == validateAndSave(standardResult, w1, w2, we)
            IN  /\ result' = v.value
                /\ filesWritten' = v.files
                /\ hist' = [hist EXCEPT !.model = mo, !.modelCalls = @ + modelCalls(mo),
                              !.assembled = standardResult, !.saveFailed = v.saveFailed,
                              !.errWrite = IF ~v.saveFailed THEN "none"
                                           ELSE IF we THEN "ok" ELSE "failed"]
    /\ pc' = "done"
    /\ UNCHANGED <<crawls, url, retryCount, nav, fetchLog, mainContent, links, li,
                   processedLinks, failedLinks, processedUrls>>
    /\ UNCHANGED <<maxLinks, listVars, pureVars>>

\* the caller has the result; the locals of the call are gone, the crawler
\* object and its link processor stay
Return ==
    /\ pc = "done"
    /\ pc' = "idle"
    /\ url' = <<>>
    /\ retryCount' = 0
    /\ nav' = NoNav
    /\ fetchLog' = <<>>
    /\ mainContent' = NoContent
    /\ links' = <<>>
    /\ li' = 1
    /\ processedLinks' = <<>>
    /\ failedLinks' = <<>>
    /\ result' = NoResult
    /\ filesWritten' = {}
    /\ hist' = NoHist
    /\ UNCHANGED <<crawls, processedUrls>>
    /\ UNCHANGED <<maxLinks, listVars, pureVars>>

Next ==
    \/ \E u \in Urls : StartCrawl(u)
    \/ PdfAttempt
    \/ WebLaunch
    \/ WebNavigate
    \/ FetchFailed
    \/ ProcessPdf
    \/ EnterLinks
    \/ ProcessLink
    \/ AiProcessWeb
    \/ Return

Spec == Init /\ [][Next]_vars

----------------------------------------------------------------------------
(* The listing crawl: ListingCrawler.crawlCardListing *)

\* isValidCreditCard on every candidate of the pool
filterOf == [i \in 1..Len(CandidatePool) |-> isValidCreditCard(CandidatePool[i])]
filterResult(card) == filterOf[CHOOSE i \in 1..Len(CandidatePool) : CandidatePool[i] = card]

\* The results crawlCardBenefits returns to the listing crawler: saved,
\* incomplete, error record written, error record not written.
CardResults ==
    { [valid |-> TRUE, reason |-> "none"],
      [valid |-> FALSE, reason |-> "incomplete_data"],
      [valid |-> FALSE, reason |-> "extraction_error"],
      [valid |-> FALSE, reason |-> "critical_error"] }

\* postProcessAndValidateUrls: the value returned after the loop
validatedData(cards, invalid, original) ==
    [cards |-> cards,
     invalid_urls |-> invalid,
     total_cards_found |-> Len(cards),
     original_count |-> Len(original),
     filtered_out |-> Len(invalid),
     validation_summary |->
        [total_checked |-> Len(original),
         valid_urls |-> Len(cards),
         invalid_urls |-> Len(invalid),
         success_rate |-> success_rate(Len(cards), Len(original))]]

\* +(okCards.length / attempted).toFixed(2), in hundredths; 0 when attempted is 0
processing_success_rate(ok, attempted) ==
    IF attempted > 0 THEN (200 * ok + attempted) \div (2 * attempted) ELSE 0

\* (gptListingData.validation_summary || {})
summaryOrEmpty(d) ==
    IF "validation_summary" \in DOMAIN d THEN d.validation_summary ELSE [empty |-> TRUE]

\* (gptListingData.original_count || 0)
originalCountOrZero(d) ==
    IF "original_count" \in DOMAIN d THEN d.original_count ELSE 0

\* ListingCrawler.buildListingSummary
buildListingSummary(d, ok, failed) ==
    [url_validation_summary |-> summaryOrEmpty(d),
     listing_summary |->
        [total_urls_found |-> originalCountOrZero(d),
         valid_urls_after_validation |-> d.total_cards_found,
         cards_processed |-> Len(ok),
         cards_failed |-> Len(failed),
         processing_success_rate |-> processing_success_rate(Len(ok), Len(ok) + Len(failed))],
     cards |-> ok,
     failed_cards |-> failed,
     metadata |-> [message |-> "none"]]

\* ListingCrawler.emptyListingResult
emptyListingResult(d) ==
    [url_validation_summary |-> summaryOrEmpty(d),
     listing_summary |->
        [total_urls_found |-> originalCountOrZero(d),
         valid_urls_after_validation |-> 0,
         cards_processed |-> 0,
         cards_failed |-> 0,
         processing_success_rate |-> 0],
     cards |-> <<>>,
     failed_cards |-> <<>>,
     metadata |-> [message |-> "no valid card urls"]]

\* ListingCrawler.errorListingResult
errorListingResult(msg) ==
    [listing_summary |-> [empty |-> TRUE],
     cards |-> <<>>,
     failed_cards |-> <<>>,
     metadata |-> [error |-> msg]]

\* crawlCardListing, the body of the for loop: what one orchestrator result
\* adds to failedCards
failedEntry(cardMeta, cardRes) == [card |-> cardMeta, reason |-> "incomplete_data"]

InitListing ==
    /\ pc = "off"
    /\ crawls = 0
    /\ url = <<>>
    /\ retryCount = 0
    /\ nav = NoNav
    /\ fetchLog = <<>>
    /\ mainContent = NoContent
    /\ links = <<>>
    /\ li = 1
    /\ processedLinks = <<>>
    /\ failedLinks = <<>>
    /\ processedUrls = {}
    /\ maxLinks = 0
    /\ result = NoResult
    /\ filesWritten = {}
    /\ hist = NoHist
    /\ lpc = "start"
    /\ candidates = <<>>
    /\ ci = 1
    /\ validCards = <<>>
    /\ invalidUrls = <<>>
    /\ headLog = {}
    /\ lastHead = NoHead
    /\ listingData = NoReport
    /\ vi = 1
    /\ okCards = <<>>
    /\ failedCards = <<>>
    /\ cardResults = <<>>
    /\ report = NoReport
    /\ PureOff

\* crawlCardListing step 1: the listing page is fetched; an unsuccessful
\* fetch raises into the catch, which returns errorListingResult
FetchListing ==
    /\ lpc = "start"
    /\ \E ok \in BOOLEAN :
         IF ok
         THEN lpc' = "extract" /\ UNCHANGED report
         ELSE lpc' = "done" /\ report' = errorListingResult("Listing extraction failed")
    /\ UNCHANGED <<candidates, ci, validCards, invalidUrls, headLog, lastHead,
                   listingData, vi, okCards, failedCards, cardResults>>
    /\ UNCHANGED <<crawlVars, pureVars>>

\* What the model call of extractCardUrls can give: a raised error whose
\* message has no "JSON" in it, an answer without a cards array, or a list of
\* candidates (from the direct call or gathered from the chunks).
ListingModelOutcomes == {"api_error", "no_cards_array", "cards"}

\* crawlCardListing step 2, extractCardUrls up to the validation loop; when
\* nothing is to validate, the empty report is returned
ExtractCardUrls ==
    /\ lpc = "extract"
    /\ \E mo \in ListingModelOutcomes, cands \in CandidateLists :
         /\ (mo # "cards" => cands = <<>>)
         /\ IF mo = "cards"
            THEN /\ candidates' = cands
                 /\ ci' = 1
                 /\ lpc' = "validate"
                 /\ UNCHANGED <<listingData, report>>
            ELSE LET d == IF mo = "api_error"
                          THEN [cards |-> <<>>, invalid_urls |-> <<>>]
                          ELSE [cards |-> <<>>, invalid_urls |-> <<>>, total_cards_found |-> 0]
                 IN  /\ listingData' = d
                     /\ report' = emptyListingResult(d)
                     /\ lpc' = "done"
                     /\ UNCHANGED <<candidates, ci>>
    /\ UNCHANGED <<validCards, invalidUrls, headLog, lastHead, vi, okCards,
                   failedCards, cardResults>>
    /\ UNCHANGED <<crawlVars, pureVars>>

\* postProcessAndValidateUrls: one iteration of the for loop.  A candidate
\* the filter rejects goes to invalidUrls and the loop continues before any
\* request; a raise inside the try is caught and recorded.
ValidateCandidate ==
    /\ lpc = "validate"
    /\ ci <= Len(candidates)
    /\ LET card == candidates[ci]
           f == filterResult(card)
       IN  IF f = "reject"
           THEN /\ invalidUrls' = Append(invalidUrls,
                     [card |-> card, error_type |-> "CONTENT_FILTER", response_code |-> 0])
                /\ UNCHANGED <<validCards, headLog, lastHead>>
           ELSE IF f = "raise"
           THEN /\ invalidUrls' = Append(invalidUrls,
                     [card |-> card, error_type |-> "VALIDATION_ERROR", response_code |-> 0])
                /\ UNCHANGED <<validCards, headLog, lastHead>>
           ELSE \E out \in HeadOutcomes :
                  LET normalizedCard == normalizeCardData(card)
                      isAccessible == validateUrlAccessibility(out)
                  IN  /\ headLog' = headLog \cup {card}
                      /\ lastHead' = [sent |-> TRUE, out |-> out, res |-> isAccessible]
                      /\ IF isAccessible.valid
                         THEN /\ validCards' = Append(validCards,
                                   [card |-> normalizedCard, validation_status |-> "VALID",
                                    response_code |-> isAccessible.statusCode])
                              /\ UNCHANGED invalidUrls
                         ELSE /\ invalidUrls' = Append(invalidUrls,
                                   [card |-> normalizedCard,
                                    error_type |-> isAccessible.errorType,
                                    response_code |-> isAccessible.statusCode])
                              /\ UNCHANGED validCards
    /\ ci' = ci + 1
    /\ UNCHANGED <<lpc, candidates, listingData, vi, okCards, failedCards,
                   cardResults, report>>
    /\ UNCHANGED <<crawlVars, pureVars>>

\* postProcessAndValidateUrls returns, extractCardUrls returns it, and
\* crawlCardListing returns the empty report when no card is left
ValidationDone ==
    /\ lpc = "validate"
    /\ ci > Len(candidates)
    /\ LET d == validatedData(validCards, invalidUrls, candidates)
       IN  /\ listingData' = d
           /\ IF Len(d.cards) = 0
              THEN /\ report' = emptyListingResult(d)
                   /\ lpc' = "done"
              ELSE /\ lpc' = "crawl"
                   /\ UNCHANGED report
    /\ vi' = 1
    /\ UNCHANGED <<candidates, ci, validCards, invalidUrls, headLog, lastHead,
                   okCards, failedCards, cardResults>>
    /\ UNCHANGED <<crawlVars, pureVars>>

\* crawlCardListing step 3: one iteration of the for loop over the validated
\* cards; crawlCardBenefits returns one of its results
CrawlCard ==
    /\ lpc = "crawl"
    /\ vi <= Len(listingData.cards)
    /\ \E cardRes \in CardResults :
         LET cardMeta == listingData.cards[vi]
         IN  /\ cardResults' = Append(cardResults, [card |-> cardMeta, res |-> cardRes])
             /\ IF ~cardRes.valid
                THEN /\ failedCards' = Append(failedCards, failedEntry(cardMeta, cardRes))
                     /\ UNCHANGED okCards
                ELSE /\ okCards' = Append(okCards,
                          [url |-> cardMeta.card.url,
                           listing_info |-> [status |-> cardMeta.validation_status,
                                             response_code |-> cardMeta.response_code]])
                     /\ UNCHANGED failedCards
    /\ vi' = vi + 1
    /\ UNCHANGED <<lpc, candidates, ci, validCards, invalidUrls, headLog, lastHead,
                   listingData, report>>
    /\ UNCHANGED <<crawlVars, pureVars>>

\* crawlCardListing steps 4 and 5: the summary is built and written; a failed
\* write raises into the catch, which returns errorListingResult
BuildSummary ==
    /\ lpc = "crawl"
    /\ vi > Len(listingData.cards)
    /\ \E w \in BOOLEAN :
         report' = IF w THEN buildListingSummary(listingData, okCards, failedCards)
                   ELSE errorListingResult("write failed")
    /\ lpc' = "done"
    /\ UNCHANGED <<candidates, ci, validCards, invalidUrls, headLog, lastHead,
                   listingData, vi, okCards, failedCards, cardResults>>
    /\ UNCHANGED <<crawlVars, pureVars>>

NextListing ==
    \/ FetchListing
    \/ ExtractCardUrls
    \/ ValidateCandidate
    \/ ValidationDone
    \/ CrawlCard
    \/ BuildSummary

SpecListing == InitListing /\ [][NextListing]_vars

----------------------------------------------------------------------------
(* isDataComplete on its own *)

\* card names and bank names: missing, empty, plain, and placeholders in
\* several spellings
NameInputs ==
    {Null, Str(<<>>), Str(CardName.regalia), Str(CardName.unknown), Str(CardName.notfound),
     Str(CardName.terror), Str(CardName.NOTFOUND)}
BankInputs == {Null, Str(BankName.hdfc), Str(BankName.error)}

\* lists: missing, empty, one element
ListInputs == {Null, Arr(<<>>), Arr(<<"x">>)}

\* rewards: missing at every level of rewards.earning.categories
RewardsInputs ==
    {Null, Rewards(Null), Rewards(Earning(Null)), Rewards(Earning(Arr(<<>>))),
     Rewards(Earning(Arr(<<"dining">>)))}

\* the records isDataComplete is called on: null, without a card, and every
\* combination of the fields above
CompleteInputs ==
    {Null}
    \cup { Data(Null, b, Arr(<<>>), Arr(<<>>), Null) : b \in ListInputs }
    \cup { Data(Card(n, k), b, o, p, r) :
             n \in NameInputs, k \in BankInputs, b \in ListInputs,
             o \in {Arr(<<>>), Arr(<<"offer">>)}, p \in {Arr(<<>>), Arr(<<"perk">>)},
             r \in RewardsInputs }

InitComplete ==
    /\ pc = "off"
    /\ crawls = 0
    /\ url = <<>>
    /\ retryCount = 0
    /\ nav = NoNav
    /\ fetchLog = <<>>
    /\ mainContent = NoContent
    /\ links = <<>>
    /\ li = 1
    /\ processedLinks = <<>>
    /\ failedLinks = <<>>
    /\ processedUrls = {}
    /\ maxLinks = 0
    /\ result = NoResult
    /\ filesWritten = {}
    /\ hist = NoHist
    /\ ListingOff
    /\ record \in CompleteInputs
    /\ verdict = "unchecked"
    /\ score = [t |-> "unscored"]
    /\ LinkOff
    /\ TextOff
    /\ CliOff
    /\ ai = NoAi

\* isDataComplete(record) is called
CheckComplete ==
    /\ verdict = "unchecked"
    /\ verdict' = IF isDataComplete(record) THEN "true" ELSE "false"
    /\ UNCHANGED <<record, score, crawlVars, listVars, linkVars, textVars, cli, ai>>

\* calculateConfidenceScore(record) is called
ScoreRecord ==
    /\ score = [t |-> "unscored"]
    /\ score' = calculateConfidenceScore(record)
    /\ UNCHANGED <<record, verdict, crawlVars, listVars, linkVars, textVars, cli, ai>>

NextComplete ==
    \/ CheckComplete
    \/ ScoreRecord

SpecComplete == InitComplete /\ [][NextComplete]_vars

----------------------------------------------------------------------------
(* The link classifier as a function of the page: LinkProcessor.extractLinks *)

\* anchors on one page
MaxAnchors == 3

\* the anchors of a page, as indices into LinkInputs, each at most once
LinkPages ==
    UNION { { q \in [1..n -> 1..Len(LinkInputs)] : \A i, j \in 1..n : i # j => q[i] # q[j] }
            : n \in 0..MaxAnchors }

\* the anchors of the page, as extractPageContent sees them
anchorsOf(p) == [k \in 1..Len(p.anchors) |-> LinkInputs[p.anchors[k]]]

InitLink ==
    /\ CrawlOff
    /\ ListingOff
    /\ CompleteOff
    /\ TextOff
    /\ CliOff
    /\ ai = NoAi
    /\ page \in { [base |-> b, anchors |-> q] : b \in BaseUrls, q \in LinkPages }
    /\ judged = <<>>
    /\ ranked = NoRanking

\* extractLinks, one iteration of the forEach: isRelevantLink(text, href,
\* baseUrl) is called on the next anchor and, when it accepts, classifyLink
JudgeLink ==
    /\ Len(judged) < Len(page.anchors)
    /\ LET k == page.anchors[Len(judged) + 1]
           relevant == relevantOf[k, page.base]
       IN  judged' = Append(judged, [relevant |-> relevant,
                                     type |-> IF relevant THEN typeOf[k] ELSE "none"])
    /\ UNCHANGED <<page, ranked, completeVars, crawlVars, listVars, textVars, cli, ai>>

\* extractLinks returns the prioritized links
ExtractLinks ==
    /\ Len(judged) = Len(page.anchors)
    /\ ~ranked.returned
    /\ ranked' = [returned |-> TRUE,
                  links |-> extractLinks([links |-> pageLinks(anchorsOf(page), page.base)],
                                         page.base)]
    /\ UNCHANGED <<page, judged, completeVars, crawlVars, listVars, textVars, cli, ai>>

NextLink ==
    \/ JudgeLink
    \/ ExtractLinks

SpecLink == InitLink /\ [][NextLink]_vars

----------------------------------------------------------------------------
(* The text normalizer applied to its own result *)

InitText ==
    /\ CrawlOff
    /\ ListingOff
    /\ CompleteOff
    /\ LinkOff
    /\ CliOff
    /\ ai = NoAi
    /\ raw \in TextInputs
    /\ cleaned = <<>>

\* cleanText is called: on raw, then on the string it returned
CleanText ==
    /\ Len(cleaned) < 2
    /\ cleaned' = Append(cleaned, cleanText(IF cleaned = <<>> THEN raw
                                            ELSE Str(cleaned[Len(cleaned)])))
    /\ UNCHANGED <<raw, completeVars, linkVars, crawlVars, listVars, cli, ai>>

NextText == CleanText

SpecText == InitText /\ [][NextText]_vars

----------------------------------------------------------------------------
(* The command line: node index.js <url> <openai-api-key> --single *)

InitCli ==
    /\ pc = "idle"
    /\ crawls = 0
    /\ url = <<>>
    /\ retryCount = 0
    /\ nav = NoNav
    /\ fetchLog = <<>>
    /\ mainContent = NoContent
    /\ links = <<>>
    /\ li = 1
    /\ processedLinks = <<>>
    /\ failedLinks = <<>>
    /\ processedUrls = {}
    /\ maxLinks = 0
    /\ result = NoResult
    /\ filesWritten = {}
    /\ hist = NoHist
    /\ ListingOff
    /\ CompleteOff
    /\ LinkOff
    /\ TextOff
    /\ ai = NoAi
    /\ cli = [stage |-> "start", code |-> 0]

\* the arguments are read: with fewer than two the usage is printed and the
\* process exits with 1; otherwise extractSingleCard constructs the crawler,
\* and a raising constructor rejects the promise, whose catch exits with 1
CliStart ==
    /\ cli.stage = "start"
    /\ \E argsGiven, constructed \in BOOLEAN :
         cli' = IF argsGiven /\ constructed THEN [stage |-> "running", code |-> 0]
                ELSE [stage |-> "exited", code |-> 1]
    /\ UNCHANGED <<crawlVars, listVars, completeVars, linkVars, textVars, ai>>

\* crawlCardBenefits has returned: the then-branch prints the result and the
\* process ends
CliExit ==
    /\ cli.stage = "running"
    /\ pc = "done"
    /\ cli' = [stage |-> "exited", code |-> 0]
    /\ UNCHANGED <<crawlVars, listVars, completeVars, linkVars, textVars, ai>>

NextCli ==
    \/ CliStart
    \/ (cli.stage = "running" /\ crawls = 0 /\ \E u \in Urls : StartCrawl(u))
    \/ (cli.stage = "running" /\ PdfAttempt)
    \/ (cli.stage = "running" /\ WebLaunch)
    \/ (cli.stage = "running" /\ WebNavigate)
    \/ (cli.stage = "running" /\ FetchFailed)
    \/ (cli.stage = "running" /\ ProcessPdf)
    \/ (cli.stage = "running" /\ EnterLinks)
    \/ (cli.stage = "running" /\ ProcessLink)
    \/ (cli.stage = "running" /\ AiProcessWeb)
    \/ CliExit

SpecCli == InitCli /\ [][NextCli]_vars

----------------------------------------------------------------------------
(* The model calls of a listing run and their token accounting:            *)
(* AIProcessor.extractCardUrls, processListingInChunks, processContent     *)

\* chunks of 6000 characters in the text of a listing page
MaxChunks == 6

\* processListingInChunks: Math.min(chunks.length, 5)
maxChunkCalls == 5

\* a listing run starts: the ListingCrawler has its own AIProcessor and its
\* cardCrawler has another one.  The page decides whether the combined prompt
\* is over the budget, how many chunks its text has and how many of its cards
\* survive the validation.
InitTokens ==
    /\ CrawlOff
    /\ ListingOff
    /\ CompleteOff
    /\ LinkOff
    /\ TextOff
    /\ CliOff
    /\ \E overBudget \in BOOLEAN, nchunks \in 0..MaxChunks, ncards \in 0..MaxCards :
         ai = [NoAi EXCEPT !.stage = "extract", !.overBudget = overBudget,
                           !.nchunks = nchunks, !.ncards = ncards]

\* extractCardUrls up to its first return: over the budget no call is made
\* and processListingInChunks is entered; otherwise the combined call is made,
\* and a truncated answer or a JSON error enters processListingInChunks, which
\* starts with extractCardLinksFromArray
ListingCall ==
    /\ ai.stage = "extract"
    /\ \E out \in {"api_error", "truncated", "bad_json", "no_cards", "cards"},
          input \in 1..2, heuristicFound \in BOOLEAN :
         LET called == ~ai.overBudget
             counted == called /\ out # "api_error"
             chunked == ai.overBudget \/ out \in {"truncated", "bad_json"}
             add(t) == IF counted THEN [in |-> t.in + input, out |-> t.out + 1] ELSE t
         IN  /\ (~counted => input = 1)
             /\ (~chunked => ~heuristicFound)
             /\ (ai.overBudget => out = "cards")
             /\ ai' = [ai EXCEPT
                    !.calls = (IF called THEN <<"combined">> ELSE <<>>)
                              \o (IF chunked THEN <<"heuristic">> ELSE <<>>),
                    !.listing = add(@),
                    !.spent = add(@),
                    !.found = IF chunked THEN heuristicFound ELSE called /\ out = "cards",
                    !.stage = IF chunked /\ ai.nchunks > 0 THEN "chunks" ELSE "cards"]
    /\ UNCHANGED <<crawlVars, listVars, completeVars, linkVars, textVars, cli>>

\* the loop when a failing chunk ends it
chunkLoopBreaksOnFailure(i, nchunks, failed) ==
    LET limit == IF nchunks < maxChunkCalls THEN nchunks ELSE maxChunkCalls
    IN  IF failed \/ i + 1 >= limit THEN "cards" ELSE "chunks"

\* processListingInChunks, for (i = 0; i < Math.min(chunks.length, 5); i++)
\* with the catch that continues: where the call is after iteration i
chunkLoop(i, nchunks, failed) ==
    LET limit == IF nchunks < maxChunkCalls THEN nchunks ELSE maxChunkCalls
    IN  IF i + 1 >= limit THEN "cards" ELSE "chunks"

\* processListingInChunks, one iteration of the loop over the chunks: the
\* model is called on chunk k; an error is caught and the loop continues
ChunkCall ==
    /\ ai.stage = "chunks"
    /\ \E out \in {"api_error", "bad_json", "no_cards", "cards"}, input \in 1..2 :
         LET counted == out # "api_error"
             failed == out \in {"api_error", "bad_json"}
             add(t) == IF counted THEN [in |-> t.in + input, out |-> t.out + 1] ELSE t
         IN  /\ (~counted => input = 1)
             /\ ai' = [ai EXCEPT
                    !.calls = Append(@, "chunk"),
                    !.k = @ + 1,
                    !.chunkFailed = @ \/ failed,
                    !.listing = add(@),
                    !.spent = add(@),
                    !.found = @ \/ out = "cards",
                    !.stage = chunkLoop(ai.k, ai.nchunks, failed)]
    /\ UNCHANGED <<crawlVars, listVars, completeVars, linkVars, textVars, cli>>

\* crawlCardListing, one iteration of the loop over the validated cards:
\* cardCrawler.crawlCardBenefits makes no model call (the fetch failed) or one
\* call of processContent on the cardCrawler's own AIProcessor
CardCall ==
    /\ ai.stage = "cards"
    /\ ai.found
    /\ ai.c < ai.ncards
    /\ \E out \in {"no_call", "api_error", "answered"}, input \in 1..2 :
         LET counted == out = "answered"
             add(t) == IF counted THEN [in |-> t.in + input, out |-> t.out + 1] ELSE t
         IN  /\ (~counted => input = 1)
             /\ ai' = [ai EXCEPT
                    !.calls = IF out = "no_call" THEN @ ELSE Append(@, "card"),
                    !.c = @ + 1,
                    !.card = add(@),
                    !.spent = add(@)]
    /\ UNCHANGED <<crawlVars, listVars, completeVars, linkVars, textVars, cli>>

\* crawlCardListing after the loop: token_summary is getTokenTotals() of the
\* ListingCrawler's AIProcessor; with no card to process the empty result is
\* returned, which has no token_summary
TokenSummary ==
    /\ ai.stage = "cards"
    /\ ~ai.found \/ ai.c = ai.ncards
    /\ ai' = [ai EXCEPT
           !.stage = "done",
           !.summary = IF ai.found /\ ai.ncards > 0
                       THEN [t |-> "totals",
                             totalInputTokens |-> ai.listing.in,
                             totalOutputTokens |-> ai.listing.out,
                             totalTokens |-> ai.listing.in + ai.listing.out]
                       ELSE [t |-> "none"]]
    /\ UNCHANGED <<crawlVars, listVars, completeVars, linkVars, textVars, cli>>

NextTokens ==
    \/ ListingCall
    \/ ChunkCall
    \/ CardCall
    \/ TokenSummary

SpecTokens == InitTokens /\ [][NextTokens]_vars

----------------------------------------------------------------------------
(* Properties of the single-card crawl (specification Spec) *)

ModelFailed == hist.model \in {"api_error", "truncated", "bad_json"}
WebPath == mainContent.kind = "content" /\ mainContent.success /\ mainContent.contentType = "web"
PdfPath == mainContent.kind = "content" /\ mainContent.success /\ mainContent.contentType = "pdf"
ErrorRecordPersisted ==
    /\ result.valid = FALSE
    /\ result.reason = "extraction_error"
    /\ "error" \in filesWritten

\* C1: extractFromUrl always returns a value and never raises: it makes at
\* most 3 attempts, returns a success:true record as soon as one attempt
\* succeeds (every earlier attempt failed), and after the third failed
\* attempt returns a record with success:false and error populated.
C1_FetchReturnsWithinThreeAttempts ==
    /\ Len(fetchLog) <= 3
    /\ (pc = "fetch" => Len(fetchLog) < 3 /\ \A i \in 1..Len(fetchLog) : ~fetchLog[i])
    /\ (pc = "fetched" =>
          /\ mainContent.kind = "content"
          /\ Len(fetchLog) >= 1
          /\ \A i \in 1..(Len(fetchLog) - 1) : ~fetchLog[i]
          /\ (mainContent.success <=> fetchLog[Len(fetchLog)])
          /\ (~mainContent.success =>
                /\ fetchLog = <<FALSE, FALSE, FALSE>>
                /\ mainContent.error # NoError))

\* C1 witness: a fetch that gave up after its third failed attempt
C1_Witness ==
    /\ pc = "fetched"
    /\ mainContent.kind = "content"
    /\ ~mainContent.success
    /\ Len(fetchLog) = 3

C3_PersistOnlyIfComplete ==
    (pc = "done" /\ WebPath /\ hist.assembled.t = "obj") =>
      /\ (filesWritten \cap {"standard", "structured"} # {} => isDataComplete(hist.assembled))
      /\ (result.valid =>
            /\ isDataComplete(hist.assembled)
            /\ filesWritten = {"standard", "structured"})
      /\ (~isDataComplete(hist.assembled) =>
            /\ result.valid = FALSE
            /\ result.reason = "incomplete_data"
            /\ filesWritten = {})

\* C3 witness: a page with a card name and a bank but no benefit, offer,
\* perk or earning category
C3_Witness ==
    /\ pc = "done"
    /\ WebPath
    /\ hist.model = "ok"
    /\ hist.assembled.t = "obj"
    /\ hist.assembled.card = Card(Str(CardName.regalia), Str(BankName.hdfc))
    /\ result.reason = "incomplete_data"
    /\ filesWritten = {}

----------------------------------------------------------------------------
(* Properties of isDataComplete (specification SpecComplete) *)

\* s holds one of the words unknown, not found, error, in any mix of cases
HoldsPlaceholder(s) ==
    \E i \in 1..Len(s), j \in 1..Len(s) :
       i <= j /\ toLowerCase(SubSeq(s, i, j)) \in {Placeholder.unknown, Placeholder.not_found, Placeholder.error}

NonEmptyString(x) == x.t = "str" /\ Len(x.v) > 0
NonEmptyList(x) == x.t = "arr" /\ Len(x.v) > 0
WellFormed(r) == r.t = "obj" /\ r.card.t = "obj"

\* C4: isDataComplete(record) is true if and only if card.name and card.bank
\* are non-empty and hold no placeholder word (unknown, not found, error, in
\* any case) and at least one of benefits, current_offers, perks,
\* rewards.earning.categories is non-empty; on a record that is null or has
\* no card it returns false and does not raise.
C4_CompleteIffNamedAndNonEmpty ==
    verdict # "unchecked" =>
      /\ verdict \in {"true", "false"}
      /\ (~WellFormed(record) => verdict = "false")
      /\ (verdict = "true" <=>
            /\ WellFormed(record)
            /\ NonEmptyString(record.card.name)
            /\ ~HoldsPlaceholder(record.card.name.v)
            /\ NonEmptyString(record.card.bank)
            /\ ~HoldsPlaceholder(record.card.bank.v)
            /\ \/ NonEmptyList(record.benefits)
               \/ NonEmptyList(record.current_offers)
               \/ NonEmptyList(record.perks)
               \/ /\ record.rewards.t = "obj"
                  /\ record.rewards.earning.t = "obj"
                  /\ NonEmptyList(record.rewards.earning.categories))

\* C4 witness: a record with benefits whose card name is the placeholder in
\* capitals was judged incomplete
C4_Witness ==
    /\ verdict = "false"
    /\ WellFormed(record)
    /\ record.card = Card(Str(CardName.NOTFOUND), Str(BankName.hdfc))
    /\ NonEmptyList(record.benefits)

----------------------------------------------------------------------------
(* Properties of the listing crawl (specification SpecListing) *)

Validated == lpc \in {"crawl", "done"} /\ "validation_summary" \in DOMAIN listingData
SummaryReturned == lpc = "done" /\ report.metadata = [message |-> "none"]

\* the entries of a list that were made for candidate c (names are distinct)
EntriesFor(list, c) == {k \in 1..Len(list) : list[k].card.name = c.name}

\* c holds a token of the list in its url, name or description
HoldsToken(c, tokens) ==
    \E i \in 1..Len(tokens), f \in {c.url, c.name, c.description} :
       f.t = "str" /\ includes(toLowerCase(f.v), tokens[i])

\* the candidates of the pool the filter has to reject
MustReject ==
    { CandidatePool[i] : i \in { j \in 1..Len(CandidatePool) :
         LET c == CandidatePool[j] IN
            \/ c.url = Null \/ c.url = Str(<<>>)
            \/ c.name = Null \/ c.name = Str(<<>>)
            \/ HoldsToken(c, excludePatterns)
            \/ ~HoldsToken(c, includePatterns) } }

\* C6 as stated: every validated candidate is visited and ends in exactly one
\* of cards or failed_cards; an invalid orchestrator result is recorded in
\* failed_cards with its reason; cards_processed + cards_failed is the number
\* of validated candidates.
C6_FailedCardsCarryTheirReason ==
    /\ (lpc \in {"crawl", "done"} =>
          /\ Len(okCards) + Len(failedCards) = Len(cardResults)
          /\ \A i \in 1..Len(cardResults) :
               LET v == cardResults[i] IN
                 IF v.res.valid
                 THEN /\ \E k \in 1..Len(okCards) : okCards[k].url = v.card.card.url
                      /\ \A k \in 1..Len(failedCards) : failedCards[k].card # v.card
                 ELSE /\ \A k \in 1..Len(okCards) : okCards[k].url # v.card.card.url
                      /\ \E k \in 1..Len(failedCards) :
                           /\ failedCards[k].card = v.card
                           /\ failedCards[k].reason = v.res.reason)
    /\ (SummaryReturned =>
          /\ Len(cardResults) = Len(listingData.cards)
          /\ \A i \in 1..Len(cardResults) : cardResults[i].card = listingData.cards[i]
          /\ report.listing_summary.cards_processed + report.listing_summary.cards_failed
               = Len(listingData.cards))

\* C6 witness: a card whose crawl ended in extraction_error is listed in
\* failed_cards of the report
C6_Witness ==
    /\ SummaryReturned
    /\ \E i \in 1..Len(cardResults) :
         /\ cardResults[i].res.reason = "extraction_error"
         /\ \E k \in 1..Len(report.failed_cards) :
              report.failed_cards[k].card = cardResults[i].card

\* the scenario of C7: three candidates proposed, one answers 404, the other
\* two are valid and extract completely
C7_Scenario ==
    /\ SummaryReturned
    /\ Len(candidates) = 3
    /\ Len(invalidUrls) = 1
    /\ invalidUrls[1].error_type = "NOT_FOUND_404"
    /\ Len(cardResults) = 2
    /\ \A i \in 1..2 : cardResults[i].res.valid

\* C7 as stated: the report of a listing run has an invalid_urls list with
\* one entry, and its error_type, per candidate that failed URL validation;
\* in the scenario it has cards_processed = 2 and invalid_urls of length 1
\* with error_type NOT_FOUND_404.
C7_ReportListsInvalidUrls ==
    SummaryReturned =>
      /\ "invalid_urls" \in DOMAIN report
      /\ Len(report.invalid_urls) = Len(invalidUrls)
      /\ \A k \in 1..Len(invalidUrls) :
           report.invalid_urls[k].error_type = invalidUrls[k].error_type
      /\ (C7_Scenario =>
            /\ report.listing_summary.cards_processed = 2
            /\ Len(report.invalid_urls) = 1
            /\ report.invalid_urls[1].error_type = "NOT_FOUND_404")

\* C7 witness: the scenario is reached and the report counts two processed
\* cards
C7_Witness ==
    /\ C7_Scenario
    /\ report.listing_summary.cards_processed = 2
    /\ report.url_validation_summary.invalid_urls = 1

\* every input candidate is in exactly one of cards and invalid_urls, once;
\* a candidate is in cards only if the filter accepted it, a HEAD request was
\* sent for it and the answer had a 2xx-3xx status; the three counts add up
C8_Partition ==
    LET sum == listingData.validation_summary IN
      /\ \A i \in 1..Len(candidates) :
           Cardinality(EntriesFor(listingData.cards, candidates[i]))
             + Cardinality(EntriesFor(listingData.invalid_urls, candidates[i])) = 1
      /\ Len(listingData.cards) + Len(listingData.invalid_urls) = Len(candidates)
      /\ \A k \in 1..Len(listingData.cards) :
           \E c \in headLog :
              /\ c.name = listingData.cards[k].card.name
              /\ c \notin MustReject
              /\ listingData.cards[k].response_code \in 200..399
      /\ sum.valid_urls = Len(listingData.cards)
      /\ sum.invalid_urls = Len(listingData.invalid_urls)
      /\ sum.valid_urls + sum.invalid_urls = sum.total_checked
      /\ sum.total_checked = Len(candidates)

\* C8 as stated: postProcessAndValidateUrls partitions the candidates into
\* cards and invalid_urls, valid_urls + invalid_urls = total_checked = the
\* number of candidates, and success_rate = valid_urls / total_checked (0
\* when there are none).  success_rate is kept in hundredths.
C8_SuccessRateIsTheRatio ==
    Validated =>
      LET sum == listingData.validation_summary IN
        /\ C8_Partition
        /\ IF sum.total_checked = 0 THEN sum.success_rate = 0
           ELSE sum.success_rate * sum.total_checked = 100 * sum.valid_urls

\* C8 amended: the same partition and counts, and success_rate is
\* valid_urls / total_checked rounded to two decimals, halves upward (0 when
\* there are no candidates).
C8_SuccessRateIsTheRoundedRatio ==
    Validated =>
      LET sum == listingData.validation_summary
          r == sum.success_rate
          t == sum.total_checked
      IN  /\ C8_Partition
          /\ IF t = 0 THEN r = 0
             ELSE /\ 2 * r * t <= 200 * sum.valid_urls + t
                  /\ 200 * sum.valid_urls + t < 2 * r * t + 2 * t

\* C8 witness: two of three candidates are valid, and the rate is 0.67
C8_Witness ==
    /\ Validated
    /\ listingData.validation_summary.total_checked = 3
    /\ listingData.validation_summary.valid_urls = 2
    /\ listingData.validation_summary.success_rate = 67

\* C9: a candidate with an exclusion token in its url, name or description
\* is rejected even if it also holds an inclusion token, and so is a
\* candidate with no inclusion token or without url or name; a rejected
\* candidate is recorded as CONTENT_FILTER and no HEAD request is sent for it.
C9_FilterRejectsBeforeAnyRequest ==
    /\ \A i \in 1..Len(candidates) :
         (i < ci /\ candidates[i] \in MustReject) =>
           /\ \E k \in 1..Len(invalidUrls) :
                /\ invalidUrls[k].card = candidates[i]
                /\ invalidUrls[k].error_type = "CONTENT_FILTER"
           /\ EntriesFor(validCards, candidates[i]) = {}
           /\ candidates[i] \notin headLog
    /\ \A k \in 1..Len(invalidUrls) :
         invalidUrls[k].error_type = "CONTENT_FILTER" => invalidUrls[k].card \notin headLog
    /\ headLog \cap MustReject = {}

\* C9 witness: the business credit card was rejected while a HEAD request
\* went out for another candidate
C9_Witness ==
    /\ \E k \in 1..Len(invalidUrls) :
         /\ invalidUrls[k].card = Cand.business
         /\ invalidUrls[k].error_type = "CONTENT_FILTER"
    /\ headLog # {}
    /\ Cand.business \notin headLog

\* C10 as stated: validateUrlAccessibility returns for every outcome of the
\* request: valid:true for a 2xx-3xx response, NOT_FOUND_404 for a 404,
\* HTTP_ERROR for any other rejected status, CONNECTION_REFUSED for a refused
\* connection, DNS_ERROR for a DNS failure, TIMEOUT for a timeout, UNKNOWN
\* for anything else.
C10_EveryFailureHasItsType ==
    lastHead.sent =>
      LET o == lastHead.out
          r == lastHead.res
      IN  IF o.cause = "response" /\ o.status \in 200..399
          THEN r.valid /\ r.statusCode = o.status
          ELSE /\ ~r.valid
               /\ r.errorType =
                    CASE o.cause = "response" /\ o.status = 404 -> "NOT_FOUND_404"
                      [] o.cause = "response" /\ o.status # 404 -> "HTTP_ERROR"
                      [] o.cause = "refused" -> "CONNECTION_REFUSED"
                      [] o.cause = "dns" -> "DNS_ERROR"
                      [] o.cause = "timeout" -> "TIMEOUT"
                      [] OTHER -> "UNKNOWN"

\* C10 witness: the request's own 10 s timer expired and the failure was
\* typed UNKNOWN
C10_Witness ==
    /\ lastHead.sent
    /\ lastHead.out.cause = "timeout"
    /\ lastHead.out.code = "ECONNABORTED"
    /\ lastHead.res.errorType = "UNKNOWN"

----------------------------------------------------------------------------
(* Claims about the link classifier *)

\* what the claims say of one anchor of the pool
strictMatchOf ==
    [i \in 1..Len(LinkInputs) |->
        somePatternTests(strictRelevantPatterns, toLowerCase(LinkInputs[i].text),
                         toLowerCase(LinkInputs[i].href))]
irrelevantMatchOf ==
    [i \in 1..Len(LinkInputs) |->
        somePatternTests(irrelevantPatterns, toLowerCase(LinkInputs[i].text),
                         toLowerCase(LinkInputs[i].href))]
pdfSignalOf ==
    [i \in 1..Len(LinkInputs) |->
        relevantPdfIndicators(toLowerCase(LinkInputs[i].text), toLowerCase(LinkInputs[i].href))]
hrefPdfSignalOf ==
    [i \in 1..Len(LinkInputs) |->
        LET h == toLowerCase(LinkInputs[i].href)
        IN  includes(h, Lit.pdf) \/ includes(h, Lit.repositories) \/ includes(h, Lit.qpath)]
\* the anchors isRelevantLink has been called on
JudgedAnchors == 1..Len(judged)

\* C11 as stated: a link that matches none of the strict relevant patterns
\* is excluded by isRelevantLink, whatever its domain.
C11_NoStrictMatchIsExcluded ==
    \A k \in JudgedAnchors :
        ~strictMatchOf[page.anchors[k]] => ~judged[k].relevant

\* C11, amended: a link that carries no PDF signal and matches none of the
\* strict relevant patterns is excluded by isRelevantLink, whatever its domain.
C11_NoSignalNoStrictMatchIsExcluded ==
    \A k \in JudgedAnchors :
        (~pdfSignalOf[page.anchors[k]] /\ ~strictMatchOf[page.anchors[k]])
            => ~judged[k].relevant

\* a same-domain link without PDF signal, irrelevant-pattern match or strict
\* match has been judged and excluded
C11_Witness ==
    \E k \in JudgedAnchors :
        LET a == page.anchors[k]
        IN  /\ ~pdfSignalOf[a] /\ ~strictMatchOf[a] /\ ~irrelevantMatchOf[a]
            /\ getDomain(LinkInputs[a].href) = getDomain(page.base)
            /\ ~judged[k].relevant

\* C12: a link whose href carries a PDF signal is relevant and classified
\* 'pdf', even when its text is generic, an irrelevant pattern matches or it
\* is on a foreign domain.
C12_PdfHrefIsRelevantAndPdf ==
    \A k \in JudgedAnchors :
        hrefPdfSignalOf[page.anchors[k]]
            => judged[k].relevant /\ judged[k].type = "pdf"

\* a PDF link on a foreign domain whose text matches an irrelevant pattern has
\* been judged
C12_Witness ==
    \E k \in JudgedAnchors :
        LET a == page.anchors[k]
        IN  /\ hrefPdfSignalOf[a] /\ irrelevantMatchOf[a]
            /\ getDomain(LinkInputs[a].href) # Null
            /\ getDomain(LinkInputs[a].href) # getDomain(page.base)
            /\ judged[k].relevant /\ judged[k].type = "pdf"

\* the host is one of the allow-listed domains
onKnownCardDomain(host) ==
    host # Null /\ \E d \in 1..Len(knownCardDomains) : host.v = knownCardDomains[d]

\* C13 as stated: a link with no PDF signal and no irrelevant-pattern match
\* that matches a strict relevant pattern is accepted exactly when its URL,
\* resolved against the base URL, is on the base URL's domain, or is PDF-like,
\* or is on an allow-listed affiliated domain.
C13_DomainPolicyOnResolvedUrl ==
    \A k \in JudgedAnchors :
        LET a == page.anchors[k]
            resolved == fullUrlOf(LinkInputs[a].href, page.base)
            pdfLike == includes(toLowerCase(resolved), Lit.pdf)
                       \/ includes(toLowerCase(resolved), Lit.repositoriesword)
        IN  (~pdfSignalOf[a] /\ ~irrelevantMatchOf[a] /\ strictMatchOf[a])
                => (judged[k].relevant
                      <=> \/ getDomain(resolved) = getDomain(page.base)
                          \/ pdfLike
                          \/ onKnownCardDomain(getDomain(resolved)))

\* a site-relative link that matches a strict relevant pattern has been judged
C13_Witness ==
    \E k \in JudgedAnchors :
        LET a == page.anchors[k]
        IN  /\ ~pdfSignalOf[a] /\ ~irrelevantMatchOf[a] /\ strictMatchOf[a]
            /\ getDomain(LinkInputs[a].href) = Null
            /\ ~judged[k].relevant

\* the links extractLinks hands to prioritizeLinks
Collected ==
    LET ls == pageLinks(anchorsOf(page), page.base) IN collectLinks(ls, page.base, Len(ls))
\* where a link of the input stands in the result
RankOf(l) == CHOOSE n \in 1..Len(ranked.links) : ranked.links[n] = l

\* C14: prioritizeLinks returns a permutation of its input in non-increasing
\* weight order, links of equal weight keep their input order, every pdf
\* link precedes and every general link follows the links of other categories.
C14_StableDescendingByWeight ==
    ranked.returned =>
        LET in == Collected
            out == ranked.links
        IN  /\ Len(out) = Len(in)
            /\ \A i \in 1..Len(in) : \E n \in 1..Len(out) : out[n] = in[i]
            /\ \A n \in 1..(Len(out) - 1) : priority(out[n].type) >= priority(out[n + 1].type)
            /\ \A i, j \in 1..Len(in) :
                 (i < j /\ priority(in[i].type) = priority(in[j].type))
                     => RankOf(in[i]) < RankOf(in[j])
            /\ \A m, n \in 1..Len(out) :
                 /\ (out[m].type = "pdf" /\ out[n].type # "pdf") => m < n
                 /\ (out[m].type # "general" /\ out[n].type = "general") => m < n

\* three links were ranked: two of equal weight, and one of higher weight that
\* stood after them on the page
C14_Witness ==
    /\ ranked.returned
    /\ Len(ranked.links) = 3
    /\ LET in == Collected
       IN  /\ priority(in[1].type) = priority(in[2].type)
           /\ priority(in[3].type) > priority(in[1].type)
           /\ ranked.links = <<in[3], in[1], in[2]>>

----------------------------------------------------------------------------
(* Claims about the confidence score *)

\* the signals calculateConfidenceScore looks at
SignalsOf(r) ==
    { Truthy(IF r.card.t = "obj" THEN r.card.name ELSE Null),
      Truthy(IF r.card.t = "obj" THEN r.card.bank ELSE Null),
      r.benefits.t = "arr" /\ r.benefits.v # <<>>,
      r.current_offers.t = "arr" /\ r.current_offers.v # <<>>,
      /\ r.rewards.t = "obj" /\ r.rewards.earning.t = "obj"
      /\ r.rewards.earning.categories.t = "arr" /\ r.rewards.earning.categories.v # <<>> }

\* C15: for any record the confidence score is in [0,1]; it is 0 when every
\* signal is absent and 1 when every signal is present.
C15_ScoreWithinZeroAndOne ==
    (score.t # "unscored" /\ record.t = "obj") =>
        /\ score.t = "num"
        /\ score.v \in 0..100
        /\ (SignalsOf(record) = {FALSE} => score.v = 0)
        /\ (SignalsOf(record) = {TRUE} => score.v = 100)

\* a record with every signal present has been scored
C15_Witness ==
    /\ score.t = "num"
    /\ record.t = "obj"
    /\ SignalsOf(record) = {TRUE}
    /\ score.v = 100

----------------------------------------------------------------------------
(* Claims about the text normalizer *)

\* C16: cleanText returns the empty string for an input that is not a string
\* and is idempotent: cleanText(cleanText(s)) = cleanText(s).
C16_NormalizerIsIdempotent ==
    /\ (raw.t # "str" /\ cleaned # <<>>) => cleaned[1] = <<>>
    /\ Len(cleaned) = 2 => cleaned[2] = cleaned[1]

\* a string with a doubly encoded entity has been cleaned twice
C16_Witness ==
    /\ raw = Str(<<"a","&","a","m","p",";","n","b","s","p",";">>)
    /\ Len(cleaned) = 2
    /\ cleaned[1] = <<"a","&","n","b","s","p",";">>
    /\ cleaned[2] = <<"a">>

----------------------------------------------------------------------------
(* Claims about the command line *)

\* C17: the process exits with code 1 whenever the invocation fails (missing
\* arguments, or the main fetch or the model call failing) and with code 0
\* only when the extraction succeeded.
C17_ExitCodeTellsFailure ==
    cli.stage = "exited" =>
        /\ (cli.code = 0 => (result # NoResult /\ result.valid))
        /\ ((hist.fetchFailed \/ ModelFailed) => cli.code = 1)

\* the main fetch failed, the error record was returned, and the process has
\* ended
C17_Witness ==
    /\ cli.stage = "exited"
    /\ hist.fetchFailed
    /\ result # NoResult /\ ~result.valid /\ result.reason = "extraction_error"
    /\ cli.code = 0

(***************************************************************************)
(* C18 to C20: the loop of processLinks                                    *)
(***************************************************************************)

\* the URLs processLinks fetched in the current call
FetchedUrls ==
    {processedLinks[k].url : k \in 1..Len(processedLinks)}
        \cup {failedLinks[k].url : k \in 1..Len(failedLinks)}

\* C18: the already-processed URL set is scoped to one main-page crawl, so
\* every link the loop has passed was fetched in this crawl: a crawl made
\* earlier on the same crawler never causes a skip.
C18_EarlierCrawlCausesNoSkip ==
    pc = "links" => \A k \in 1..(li - 1) : links[k].url \in FetchedUrls

\* the second crawl of one crawler has passed its first link without fetching
\* it, because the first crawl had fetched that URL
C18_Witness ==
    /\ crawls = 2
    /\ pc = "links"
    /\ li = 2
    /\ links[1].url \in processedUrls
    /\ FetchedUrls = {}

\* C19: with a limit of n > 0 linked pages, at most n linked pages are
\* fetched for one main page.
C19_AtMostMaxLinksFetched ==
    (pc = "links" /\ maxLinks > 0) => Cardinality(FetchedUrls) <= maxLinks

\* the processor was constructed with a limit of one link and has fetched two
\* linked pages of one main page
C19_Witness ==
    /\ pc = "links"
    /\ maxLinks = 1
    /\ li = 3
    /\ Len(processedLinks) + Len(failedLinks) = 2

\* C20: link fetches within a page are sequential and a delay of
\* delayBetweenRequests elapses between two consecutive fetches: no fetch is
\* directly followed by the next fetch.
C20_DelayBetweenConsecutiveFetches ==
    \A k \in 1..(Len(hist.linkEvents) - 1) :
        ~(hist.linkEvents[k] = "fetch" /\ hist.linkEvents[k + 1] = "fetch")

\* fetching the first link raised, and the second link was fetched with no
\* sleep in between
C20_Witness ==
    /\ pc = "links"
    /\ hist.linkRaised
    /\ Len(failedLinks) >= 1
    /\ Len(hist.linkEvents) >= 2
    /\ hist.linkEvents[1] = "fetch"
    /\ hist.linkEvents[2] = "fetch"

(***************************************************************************)
(* C21 and C22: the PDF path of the orchestrator                           *)
(***************************************************************************)

\* processPdfDocument has ended for a PDF that was fetched successfully
PdfProcessed == pc = "done" /\ PdfPath /\ hist.model # "none"

\* C21: on the PDF path a record judged incomplete by the PDF validation is
\* neither persisted nor returned as valid:true.
C21_IncompletePdfIsNotPersisted ==
    (PdfProcessed /\ ~isPdfDataComplete(hist.assembled))
        => (~result.valid /\ filesWritten \cap {"standard", "structured"} = {})

\* a PDF record was judged incomplete, and both files were written and the
\* record was returned as valid:true
C21_Witness ==
    /\ PdfProcessed
    /\ ~isPdfDataComplete(hist.assembled)
    /\ result.valid
    /\ {"standard", "structured"} \subseteq filesWritten

\* C22: for a PDF main URL the validation judges the record complete exactly
\* when the text extracted from the PDF exceeds the minimum length and a
\* usable title was derived from the PDF.
C22_PdfCompleteIffTextAndTitle ==
    PdfProcessed =>
        (isPdfDataComplete(hist.assembled)
            <=> (/\ mainContent.textLength > 100
                 /\ Truthy(mainContent.title)
                 /\ mainContent.title.v \notin {Title.pdfFailed, Title.extractionError}))

\* a PDF with 150 characters of text and a title was fetched, the model
\* answered with a complete card record, and the record was judged incomplete
C22_Witness ==
    /\ PdfProcessed
    /\ mainContent.textLength = 150
    /\ mainContent.title = Str(Title.page)
    /\ hist.model = "ok"
    /\ hist.assembled = CompleteData
    /\ ~isPdfDataComplete(hist.assembled)

(***************************************************************************)
(* C23 and C24: navigateWithFallbacks                                      *)
(***************************************************************************)

\* how much each waitUntil condition of page.goto demands, as the claim
\* orders them: "no network activity" is the strictest, "basic DOM ready"
\* the most lenient
Strictness ==
    [s \in {"networkidle0", "networkidle2", "load", "domcontentloaded"} |->
        CASE s = "networkidle0" -> 3
          [] s = "networkidle2" -> 2
          [] s = "load" -> 1
          [] s = "domcontentloaded" -> 0]

\* the strategies tried so far in the current call of navigateWithFallbacks
TriedSoFar == IF nav.ended = "no" /\ nav.i >= 1 THEN nav.i - 1 ELSE nav.i

\* C23: within one render attempt a more lenient strategy is never tried
\* before a stricter one.
C23_StrictestStrategyFirst ==
    \A a, b \in 1..TriedSoFar :
        a < b => Strictness[strategies[a]] >= Strictness[strategies[b]]

\* the strategy "load" has been tried after "domcontentloaded" had failed
C23_Witness ==
    /\ pc = "fetch"
    /\ TriedSoFar >= 3
    /\ strategies[2] = "domcontentloaded"
    /\ strategies[3] = "load"

\* C24: navigateWithFallbacks returns on the first strategy that loads below
\* HTTP 400 with non-trivial content and tries no later one; a strategy that
\* errors, answers with status >= 400 or yields trivial content leads to the
\* next strategy; the call fails only when every strategy is exhausted, also
\* when all of them loaded and yielded trivial content.
C24_FirstGoodStrategyWins ==
    /\ nav.ended = "returned" => nav.out = "good"
    /\ nav.ended = "threw" => (nav.i = Len(strategies) /\ nav.out # "good")
    /\ (nav.ended = "no" /\ nav.i >= 1) =>
          /\ nav.out # "good"
          /\ nav.i <= Len(strategies)
          /\ (nav.i > 1 <=> nav.out \in {"error", "http_error", "trivial"})
    /\ (nav.ended = "threw" /\ nav.lastError = "All navigation strategies failed")
          => nav.out = "trivial"

\* all four strategies loaded the page with trivial content, and the call
\* failed
C24_Witness ==
    /\ nav.ended = "threw"
    /\ nav.i = 4
    /\ nav.out = "trivial"
    /\ nav.lastError = "All navigation strategies failed"
    /\ fetchLog # <<>> /\ ~fetchLog[Len(fetchLog)]

(***************************************************************************)
(* C25: the model calls of the listing URL extraction                      *)
(***************************************************************************)

\* the positions in ai.calls of the events of one kind
CallsOf(kind) == {n \in 1..Len(ai.calls) : ai.calls[n] = kind}

\* C25: during listing URL extraction the model is called a bounded number
\* of times: over the token budget no combined call is made; the chunked
\* fallback is entered at most once, runs the heuristic link-array extraction
\* before any of its model calls, calls the model on at most 5 chunks, and a
\* failing chunk does not prevent the remaining chunks from being processed.
C25_ListingModelCallsAreBounded ==
    /\ Cardinality(CallsOf("combined")) <= 1
    /\ Cardinality(CallsOf("chunk")) <= maxChunkCalls
    /\ ai.overBudget => CallsOf("combined") = {}
    /\ Cardinality(CallsOf("heuristic")) <= 1
    /\ \A n \in CallsOf("chunk") : \E h \in CallsOf("heuristic") : h < n
    /\ \A n \in CallsOf("combined") : \A h \in CallsOf("heuristic") : n < h
    /\ (ai.stage \in {"cards", "done"} /\ CallsOf("heuristic") # {}) =>
          Cardinality(CallsOf("chunk"))
              = IF ai.nchunks < maxChunkCalls THEN ai.nchunks ELSE maxChunkCalls

\* the prompt was over the budget, the page text had six chunks, the call on
\* a chunk failed, and the fallback ended after five chunk calls
C25_Witness ==
    /\ ai.stage = "cards"
    /\ ai.overBudget
    /\ ai.nchunks = 6
    /\ ai.chunkFailed
    /\ Cardinality(CallsOf("chunk")) = 5
    /\ ai.calls[1] = "heuristic"

(***************************************************************************)
(* C29: the token totals of a listing run                                  *)
(***************************************************************************)

\* C29: the token totals reported by a listing run equal the sum of prompt
\* and completion tokens over every model call made during that run, the
\* listing-extraction calls and the per-card extraction calls alike, and
\* totalTokens = totalInputTokens + totalOutputTokens.
C29_TokenSummaryCountsEveryCall ==
    ai.summary.t = "totals" =>
        /\ ai.summary.totalInputTokens = ai.spent.in
        /\ ai.summary.totalOutputTokens = ai.spent.out
        /\ ai.summary.totalTokens
              = ai.summary.totalInputTokens + ai.summary.totalOutputTokens

\* the listing run made a combined call and one per-card call that both
\* reported their usage, and the summary holds the tokens of the first only
C29_Witness ==
    /\ ai.stage = "done"
    /\ ai.calls = <<"combined", "card">>
    /\ ai.spent = [in |-> 3, out |-> 2]
    /\ ai.summary = [t |-> "totals", totalInputTokens |-> 1, totalOutputTokens |-> 1,
                      totalTokens |-> 2]

(***************************************************************************)
(* C26 and C27: the model call and the link lists of one crawl             *)
(***************************************************************************)

\* C26: during one single-card crawl the structuring model is called at most
\* once and never retried; the call happens only after the main fetch
\* succeeded and every candidate link has been processed, and it is not made
\* at all when the main fetch failed.
C26_ModelCalledAtMostOnce ==
    /\ hist.modelCalls <= 1
    /\ hist.modelCalls >= 1 =>
          /\ mainContent.kind = "content"
          /\ mainContent.success
          /\ WebPath => li > Len(links)
    /\ hist.fetchFailed => hist.modelCalls = 0

\* a web page with two links was crawled, both links were passed, the model
\* answered with text that is no JSON, and no second call was made
C26_Witness ==
    /\ pc = "done"
    /\ WebPath
    /\ Len(links) = 2
    /\ li = 3
    /\ hist.model = "bad_json"
    /\ hist.modelCalls = 1

\* C27: during and after processLinks, processedLinks and failedLinks are
\* disjoint, and a link is in processedLinks only if its content was fetched
\* successfully: a link whose fetch failed, web page or PDF, is in failedLinks.
C27_ProcessedLinksHaveContent ==
    pc = "links" =>
        /\ \A a \in 1..Len(processedLinks), b \in 1..Len(failedLinks) :
              processedLinks[a].url # failedLinks[b].url
        /\ \A a \in 1..Len(processedLinks) : processedLinks[a].hasContent

\* the download of a linked PDF failed, and the link is in processedLinks
\* with no content while failedLinks is empty
C27_Witness ==
    /\ pc = "links"
    /\ li > Len(links)
    /\ failedLinks = <<>>
    /\ \E a \in 1..Len(processedLinks) :
          processedLinks[a].type = "pdf" /\ ~processedLinks[a].hasContent

(***************************************************************************)
(* C28: what the confidence score tells apart                              *)
(***************************************************************************)

\* C28: every signal has a positive weight in the confidence score: of two
\* records that differ only in the presence of one signal (here the perks,
\* or the benefits), the one that has it scores higher.
C28_EverySignalRaisesTheScore ==
    score.t = "num" =>
        /\ record.perks = Arr(<<>>) =>
              calculateConfidenceScore([record EXCEPT !.perks = Arr(<<"perk">>)]).v > score.v
        /\ record.benefits = Arr(<<>>) =>
              calculateConfidenceScore([record EXCEPT !.benefits = Arr(<<"x">>)]).v > score.v

\* a record with a name, a bank, benefits, offers and earning categories but
\* no perks was scored 1, which is also the score of the same record with
\* perks
C28_Witness ==
    /\ score = [t |-> "num", v |-> 100]
    /\ record.perks = Arr(<<>>)
    /\ record.benefits = Arr(<<"x">>)
    /\ calculateConfidenceScore([record EXCEPT !.perks = Arr(<<"perk">>)]) = score

(***************************************************************************)
(* C30: the PDF indicators of isRelevantLink and of classifyLink           *)
(***************************************************************************)

\* C30: every link that isRelevantLink accepts through its PDF indicators is
\* classified 'pdf' by classifyLink.
C30_PdfShortCircuitIsClassifiedPdf ==
    \A k \in JudgedAnchors :
        pdfSignalOf[page.anchors[k]] => (judged[k].relevant /\ judged[k].type = "pdf")

\* the anchor "Terms and Conditions" -> /legal was accepted through the PDF
\* indicators and classified 'general'
C30_Witness ==
    \E k \in JudgedAnchors :
        /\ LinkInputs[page.anchors[k]] = Anchor.termscond
        /\ pdfSignalOf[page.anchors[k]]
        /\ judged[k].relevant
        /\ judged[k].type = "general"

====
